---- MODULE Spec2Model ----
(***************************************************************************)
(* Verification model of the KneeKlinic patient app (React Native).        *)
(*                                                                         *)
(* Two parts of the program are modelled:                                  *)
(*   - the step counter screen (StepCounterScreen in ProfileScreen.tsx):   *)
(*     accelerometer listener, start/stop, save/discard/retry;             *)
(*   - the auth context (AuthProvider), the services API client with its   *)
(*     request/response interceptors, AsyncStorage and the navigator.      *)
(*                                                                         *)
(* React state is modelled as committed at the end of the handler that     *)
(* sets it. An awaited HTTP request is split at the await: one step sends  *)
(* it, one step is the response interceptor, one step is the caller's      *)
(* continuation.                                                           *)
(***************************************************************************)
EXTENDS Integers, Naturals, Sequences, FiniteSets, TLC

VARIABLES
    \* ---- step counter screen ----
    now,            \* Date.now(), ms
    isCounting,     \* useState isCounting
    sessionSteps,   \* useState sessionSteps
    startTime,      \* useState startTime (NoTime or ms)
    duration,       \* useState duration (s)
    isSaving,       \* useState isSaving
    debugInfo,      \* useState debugInfo
    lastZ,          \* useRef lastZ (centi-g)
    stepState,      \* useRef stepState
    lastStepTime,   \* useRef lastStepTime
    subscribed,     \* subscriptionRef.current holds a live listener
    alert,          \* the Alert dialog on screen, "none" if there is none
    alertInfo,      \* what the 'Session Complete' dialog prints
    session,        \* the StepSession captured by the dialog's Save/Retry button
    mounted,        \* StepCounterScreen is mounted
    \* ---- auth context, API client, storage ----
    storage,        \* AsyncStorage: [token, user]; None / NoItem = key absent
    user,           \* AuthProvider useState user
    token,          \* AuthProvider useState token
    isLoading,      \* AuthProvider useState isLoading
    authScreen,     \* top of the AuthNavigator stack
    inflight,       \* requests of the services API client that are not finished
    errorAlert,     \* title of the error Alert a screen's catch block put up
    \* ---- other screens: the useState values of one screen instance ----
    signupScreen,   \* SignupScreen: the form fields, errors, loading
    forgotScreen,   \* ForgotPasswordScreen: step, email, otp, verifiedOtp, ...
                    \* and accepted, the body of the latest verify-reset-otp
                    \* request the server accepted (history, not in the code)
    otpScreen,      \* OTPScreen: otp, loading, resendLoading, countdown, canResend
    fetchScreen,    \* HomeScreen, AppointmentsScreen or ProgressScreen: which
                    \* one is mounted, loading, refreshing, the data shown,
                    \* and failed: a fetch of it has failed (history)
    planScreen,     \* ExercisePlansScreen or DietPlansScreen
    requested       \* the URL of the latest request of a service

stepVars == <<now, isCounting, sessionSteps, startTime, duration, isSaving,
              debugInfo, lastZ, stepState, lastStepTime, subscribed, alert,
              alertInfo, session, mounted>>
authVars == <<storage, user, token, isLoading, authScreen, inflight,
              errorAlert>>
mainVars == <<fetchScreen, planScreen, requested>>
screenVars == <<signupScreen, forgotScreen, otpScreen, mainVars>>
vars == <<stepVars, authVars, screenVars>>

Null == "null"      \* JavaScript null (a user or token that is not set)
None == "absent"    \* the token key is not in storage
NoItem == <<>>      \* no user item in storage / no header / no body / no record
NoTime == 0         \* startTime === null

(***************************************************************************)
(* Bounds                                                                  *)
(***************************************************************************)
Epoch == 1000               \* Date.now() when the screen mounts
MaxTime == 2010             \* Date.now() does not pass this value
Deltas == {250, 251, 1000}  \* ms that may elapse between two events
MaxMetricSteps == 30        \* largest step count of a finished session
\* accelerometer readings {x, y, z} in centi-g, all of integer magnitude
Samples == { <<0, 0, 100>>, <<0, 0, 108>>, <<60, 91, 0>>,
             <<0, 0, -92>>, <<35, -84, 0>> }

(***************************************************************************)
(* Step counter: constants of StepCounterScreen                            *)
(***************************************************************************)
G == 100                    \* 1.0 g in centi-g
StepThreshold == 8          \* stepThreshold = 0.08
MinStepInterval == 250      \* minStepInterval = 250
StepLengthMm == 762         \* 0.762 m per step
CentiKcalPerStep == 4       \* 0.04 kcal per step

Isqrt(n) == CHOOSE r \in 0..200 : r * r <= n /\ (r + 1) * (r + 1) > n

\* magnitude = Math.sqrt(x*x + y*y + z*z)
Magnitude(s) == Isqrt(s[1] * s[1] + s[2] * s[2] + s[3] * s[3])

\* acceleration = magnitude - 1.0
Acceleration(s) == Magnitude(s) - G

\* (num/den).toFixed(digits) as an integer count of 10^-digits units:
\* the nearest one (no tie occurs for the step counts modelled)
ToFixed(num, den, scale) == (2 * num * scale + den) \div (2 * den)

\* ((sessionSteps * 0.762) / 1000).toFixed(2), in hundredths of a km
DistanceKm2(steps) == ToFixed(steps * StepLengthMm, 1000000, 100)

\* (sessionSteps * 0.04).toFixed(0), in kcal
CaloriesKcal0(steps) == ToFixed(steps * CentiKcalPerStep, 100, 1)

\* parseFloat((sessionSteps * 0.04).toFixed(2)), in hundredths of a kcal
CaloriesKcal2(steps) == ToFixed(steps * CentiKcalPerStep, 100, 100)

calculateDistance == DistanceKm2(sessionSteps)
calculateCalories == CaloriesKcal0(sessionSteps)

\* MakeSession with the calories rounded as the screen shows them, toFixed(0)
MakeSessionWholeKcal(steps, start, end) ==
    [startTime |-> start, endTime |-> end, steps |-> steps,
     distance |-> DistanceKm2(steps), calories |-> 100 * CaloriesKcal0(steps)]

\* the record stopCounting hands to saveSession
MakeSession(steps, start, end) ==
    [startTime |-> start, endTime |-> end, steps |-> steps,
     distance |-> DistanceKm2(steps), calories |-> CaloriesKcal2(steps)]

\* Listener with stepState reset only when the step is counted
ListenerKeepsUp(s, t, st, last) ==
    LET acceleration == Acceleration(s)
        timeSinceLastStep == t - last
    IN  IF acceleration > StepThreshold /\ st = "down"
        THEN [stepState |-> "up", lastStepTime |-> last, inc |-> 0,
              lastZ |-> acceleration]
        ELSE IF acceleration < -StepThreshold /\ st = "up"
                /\ timeSinceLastStep > MinStepInterval
        THEN [stepState |-> "down", lastStepTime |-> t, inc |-> 1,
              lastZ |-> acceleration]
        ELSE [stepState |-> st, lastStepTime |-> last, inc |-> 0,
              lastZ |-> acceleration]

\* Listener with timeSinceLastStep >= minStepInterval
ListenerAtInterval(s, t, st, last) ==
    LET acceleration == Acceleration(s)
        timeSinceLastStep == t - last
    IN  IF acceleration > StepThreshold /\ st = "down"
        THEN [stepState |-> "up", lastStepTime |-> last, inc |-> 0,
              lastZ |-> acceleration]
        ELSE IF acceleration < -StepThreshold /\ st = "up"
        THEN IF timeSinceLastStep >= MinStepInterval
             THEN [stepState |-> "down", lastStepTime |-> t, inc |-> 1,
                   lastZ |-> acceleration]
             ELSE [stepState |-> "down", lastStepTime |-> last, inc |-> 0,
                   lastZ |-> acceleration]
        ELSE [stepState |-> st, lastStepTime |-> last, inc |-> 0,
              lastZ |-> acceleration]

\* Listener that adds the step once in the listener and once in the updater
ListenerCountsTwice(s, t, st, last) ==
    LET acceleration == Acceleration(s)
        timeSinceLastStep == t - last
    IN  IF acceleration > StepThreshold /\ st = "down"
        THEN [stepState |-> "up", lastStepTime |-> last, inc |-> 0,
              lastZ |-> acceleration]
        ELSE IF acceleration < -StepThreshold /\ st = "up"
        THEN IF timeSinceLastStep > MinStepInterval
             THEN [stepState |-> "down", lastStepTime |-> t, inc |-> 2,
                   lastZ |-> acceleration]
             ELSE [stepState |-> "down", lastStepTime |-> last, inc |-> 0,
                   lastZ |-> acceleration]
        ELSE [stepState |-> st, lastStepTime |-> last, inc |-> 0,
              lastZ |-> acceleration]

\* The body of the Accelerometer listener: the refs and the step increment
\* it produces for a sample arriving at time t.
Listener(s, t, st, last) ==
    LET acceleration == Acceleration(s)
        timeSinceLastStep == t - last
    IN  IF acceleration > StepThreshold /\ st = "down"
        THEN [stepState |-> "up", lastStepTime |-> last, inc |-> 0,
              lastZ |-> acceleration]
        ELSE IF acceleration < -StepThreshold /\ st = "up"
        THEN IF timeSinceLastStep > MinStepInterval
             THEN [stepState |-> "down", lastStepTime |-> t, inc |-> 1,
                   lastZ |-> acceleration]
             ELSE [stepState |-> "down", lastStepTime |-> last, inc |-> 0,
                   lastZ |-> acceleration]
        ELSE [stepState |-> st, lastStepTime |-> last, inc |-> 0,
              lastZ |-> acceleration]

(***************************************************************************)
(* Services API client (services/api.ts), AsyncStorage, auth context       *)
(***************************************************************************)
Users == {"u1"}                 \* User objects the server may return
Tokens == {"t1", "t2"}          \* non-empty JWT strings the server may issue
MaxInFlight == 2                \* requests that may be unfinished at once
Unauthorized == 401
OK == 200
\* 500 stands for every failure that is not a 401 (other HTTP error status,
\* timeout, network failure)
Statuses == {OK, Unauthorized, 500}

AuthScreenKinds == {"login", "signup", "verifyOTP", "resendOTP"}
MainScreenKinds == {"updateProfile", "getUser", "saveSteps"}
\* the GET requests of HomeScreen, AppointmentsScreen and ProgressScreen
FetchKinds == {"dashboard", "appointments", "weeklySteps", "exerciseHistory",
               "dietHistory"}

EmptyStorage == [token |-> None, user |-> NoItem]

\* JSON.stringify / JSON.parse of the user record
Stringify(u) == <<"json", u>>
Parse(str) == str[2]

\* isAuthenticated: !!user && !!token
isAuthenticated == user # Null /\ token # Null

\* Request interceptor without the check that a token was found
RequestInterceptorNoCheck(stored) == <<"Bearer", stored>>

\* Request interceptor: the Authorization header for the stored token
\* (AsyncStorage.getItem(STORAGE_KEYS.TOKEN)), NoItem when it adds no header
RequestInterceptor(stored) ==
    IF stored # None THEN <<"Bearer", stored>> ELSE NoItem

\* A request as it leaves the client. ctxToken is the auth context's token
\* in the closure of the handler that sent it (kept for refreshUser, the one
\* continuation that reads it); alive says the screen instance that sent it
\* is still mounted.
NewRequest(kind, body) ==
    [kind |-> kind, stage |-> "sent", auth |-> RequestInterceptor(storage.token),
     status |-> 0, respUser |-> Null, respToken |-> Null,
     ctxToken |-> IF kind = "updateProfile" THEN token ELSE Null,
     alive |-> TRUE, body |-> body]

\* Response interceptor that removes the token key only
ResponseInterceptorTokenOnly(status, st) ==
    IF status = Unauthorized THEN [st EXCEPT !.token = None] ELSE st

\* Response interceptor, error branch: what is left in storage
ResponseInterceptor(status, st) ==
    IF status = Unauthorized THEN EmptyStorage ELSE st

\* a continuation that follows its response without an await in between
\* (every status but 401) runs before any other event is handled
MicrotaskPending ==
    \E i \in 1..Len(inflight) :
        inflight[i].stage = "intercepted" /\ inflight[i].status # Unauthorized

Busy(kinds) ==
    \E i \in 1..Len(inflight) : inflight[i].kind \in kinds /\ inflight[i].alive

RemoveAt(seq, i) == SubSeq(seq, 1, i - 1) \o SubSeq(seq, i + 1, Len(seq))

\* requests whose screen was unmounted
MarkDead(seq, kinds) ==
    [j \in 1..Len(seq) |->
        IF seq[j].kind \in kinds THEN [seq[j] EXCEPT !.alive = FALSE] ELSE seq[j]]

\* the navigator swaps AuthNavigator and RootNavigator when isAuthenticated
\* changes; the screens of the unmounted one are gone
Remount(seq, wasAuth, isAuth) ==
    IF wasAuth = isAuth THEN seq
    ELSE IF isAuth THEN MarkDead(seq, AuthScreenKinds)
    ELSE MarkDead(seq, MainScreenKinds)

\* a screen takes a user event: the app has loaded, no continuation is
\* pending and no error dialog covers the screen
ScreenReady == ~isLoading /\ ~MicrotaskPending /\ errorAlert = "none"

CanSend == ScreenReady /\ Len(inflight) < MaxInFlight

IsAuth(u, t) == u # Null /\ t # Null

\* loadUserFromStorage: the user and token the context holds afterwards
loadUserFromStorage(st) ==
    LET tokenValue == st.token
        userValue == st.user
    IN  IF tokenValue # None /\ userValue # NoItem
        THEN [token |-> tokenValue, user |-> Parse(userValue)]
        ELSE [token |-> token, user |-> user]

\* saveAuthData that stores the token but not the user
saveAuthDataTokenOnly(userData, tokenValue) ==
    [token |-> tokenValue, user |-> storage.user]

\* saveAuthData: AsyncStorage.multiSet of the token and the stringified user
saveAuthData(userData, tokenValue) ==
    [token |-> tokenValue, user |-> Stringify(userData)]

\* updateUser: AsyncStorage.setItem(STORAGE_KEYS.USER, JSON.stringify(user))
updateUser(st, updatedUser) == [st EXCEPT !.user = Stringify(updatedUser)]

\* clearAuthData: AsyncStorage.multiRemove of both keys
clearAuthData(st) == EmptyStorage

\* the body the server may send with a response
Payloads(kind, status) ==
    IF status = OK /\ kind \in {"login", "verifyOTP"}
    THEN {[user |-> u, token |-> t] : u \in Users, t \in Tokens}
    ELSE IF status = OK /\ kind \in {"getUser", "updateProfile"} \cup FetchKinds
    THEN {[user |-> u, token |-> Null] : u \in Users \cup {Null}}
    ELSE {[user |-> Null, token |-> Null]}

(***************************************************************************)
(* Strings. A string is a sequence of one-character strings.               *)
(***************************************************************************)
MaxEmailLen == 5            \* longest e-mail typed into the signup form
MaxCoreLen == 3             \* longest free part of a typed password

Whitespace == {" ", "\n"}           \* \s of the model's alphabet
LowerCase == {"a", "b"}             \* [a-z]
UpperCase == {"A", "B"}             \* [A-Z]
Digits == {"1", "2"}                \* \d

\* String.prototype.trim
RECURSIVE Trim(_)
Trim(str) ==
    IF str # <<>> /\ Head(str) \in Whitespace THEN Trim(Tail(str))
    ELSE IF str # <<>> /\ str[Len(str)] \in Whitespace
    THEN Trim(SubSeq(str, 1, Len(str) - 1))
    ELSE str

\* String.prototype.toLowerCase
ToLowerCase(str) ==
    [k \in 1..Len(str) |-> CASE str[k] = "A" -> "a" [] str[k] = "B" -> "b"
                             [] OTHER -> str[k]]

\* /\s/.test(str)
HasWhitespace(str) == \E k \in 1..Len(str) : str[k] \in Whitespace

\* /^[^\s@]+@[^\s@]+\.[^\s@]+$/.test(str)
EmailRegex(str) ==
    LET NotSpaceNorAt(from, to) ==          \* [^\s@]+ over str[from..to]
            /\ from <= to
            /\ \A k \in from..to : str[k] \notin Whitespace /\ str[k] # "@"
    IN  \E at \in 1..Len(str) : \E dot \in (at + 1)..Len(str) :
            /\ str[at] = "@"
            /\ str[dot] = "."
            /\ NotSpaceNorAt(1, at - 1)
            /\ NotSpaceNorAt(at + 1, dot - 1)
            /\ NotSpaceNorAt(dot + 1, Len(str))

\* (?=.*C) tried at offset p: some character of the class follows, with no
\* line terminator before it ('.' does not match a line terminator)
LookaheadIn(str, p, class) ==
    \E q \in (p + 1)..Len(str) :
        /\ str[q] \in class
        /\ \A k \in (p + 1)..(q - 1) : str[k] # "\n"

\* /(?=.*[a-z])(?=.*[A-Z])(?=.*\d)(?=.*[^A-Za-z0-9])/.test(str)
ComplexityRegex(str) ==
    \E p \in 0..Len(str) :
        /\ LookaheadIn(str, p, LowerCase)
        /\ LookaheadIn(str, p, UpperCase)
        /\ LookaheadIn(str, p, Digits)
        /\ LookaheadIn(str, p, {str[k] : k \in 1..Len(str)}
                                \ (LowerCase \cup UpperCase \cup Digits))

(***************************************************************************)
(* SignupScreen: validateForm                                              *)
(***************************************************************************)
MinPasswordLength == 8
OTP_LENGTH == 6                 \* APP_CONFIG.OTP_LENGTH
ResendSeconds == 60             \* setCountdown(60)
MinResetPasswordLength == 6     \* newPassword.length < 6

\* validateForm without the check of the password's length
validateFormAnyLength(f) ==
    LET newErrors ==
            (IF Trim(f.firstName) = <<>>
             THEN {<<"firstName", "First name is required">>} ELSE {})
            \cup
            (IF Trim(f.lastName) = <<>>
             THEN {<<"lastName", "Last name is required">>} ELSE {})
            \cup
            (IF Trim(f.email) = <<>>
             THEN {<<"email", "Email is required">>}
             ELSE IF ~EmailRegex(f.email)
             THEN {<<"email", "Invalid email format">>} ELSE {})
            \cup
            (IF f.password = <<>>
             THEN {<<"password", "Password is required">>}
             ELSE IF ~ComplexityRegex(f.password)
             THEN {<<"password", "Password must include uppercase, lowercase, number, and special character">>}
             ELSE IF HasWhitespace(f.password)
             THEN {<<"password", "Password cannot contain spaces">>} ELSE {})
            \cup
            (IF f.confirmPassword = <<>>
             THEN {<<"confirmPassword", "Please confirm your password">>}
             ELSE IF f.password # f.confirmPassword
             THEN {<<"confirmPassword", "Passwords do not match">>} ELSE {})
    IN  [errors |-> newErrors, ok |-> newErrors = {}]

\* validateForm: the errors it sets and the boolean it returns
validateForm(f) ==
    LET newErrors ==
            (IF Trim(f.firstName) = <<>>
             THEN {<<"firstName", "First name is required">>} ELSE {})
            \cup
            (IF Trim(f.lastName) = <<>>
             THEN {<<"lastName", "Last name is required">>} ELSE {})
            \cup
            (IF Trim(f.email) = <<>>
             THEN {<<"email", "Email is required">>}
             ELSE IF ~EmailRegex(f.email)
             THEN {<<"email", "Invalid email format">>} ELSE {})
            \cup
            (IF f.password = <<>>
             THEN {<<"password", "Password is required">>}
             ELSE IF Len(f.password) < MinPasswordLength
             THEN {<<"password", "Password must be at least 8 characters">>}
             ELSE IF ~ComplexityRegex(f.password)
             THEN {<<"password", "Password must include uppercase, lowercase, number, and special character">>}
             ELSE IF HasWhitespace(f.password)
             THEN {<<"password", "Password cannot contain spaces">>} ELSE {})
            \cup
            (IF f.confirmPassword = <<>>
             THEN {<<"confirmPassword", "Please confirm your password">>}
             ELSE IF f.password # f.confirmPassword
             THEN {<<"confirmPassword", "Passwords do not match">>} ELSE {})
    IN  [errors |-> newErrors, ok |-> newErrors = {}]

\* the signup form as the screen mounts it
SignupScreenMount ==
    [firstName |-> <<>>, lastName |-> <<>>, email |-> <<>>, password |-> <<>>,
     confirmPassword |-> <<>>, errors |-> {}, loading |-> FALSE]

(***************************************************************************)
(* ForgotPasswordScreen: state and handlers. A handler is an operator      *)
(* from the screen's state to the state it leaves (s), the request it      *)
(* sends (req, NoItem if none) and the Alert it shows (alert).             *)
(***************************************************************************)
\* Array(APP_CONFIG.OTP_LENGTH).fill('')
EmptyOtp == [k \in 1..OTP_LENGTH |-> <<>>]

\* otp.join('')
Join(otp) == otp[1] \o otp[2] \o otp[3] \o otp[4] \o otp[5] \o otp[6]

ForgotScreenMount ==
    [step |-> "email", email |-> <<>>, otp |-> EmptyOtp, verifiedOtp |-> <<>>,
     newPassword |-> <<>>, confirmPassword |-> <<>>, loading |-> FALSE,
     countdown |-> ResendSeconds, canResend |-> FALSE, errors |-> {},
     accepted |-> NoItem]

\* handleOtpChange(value.replace(/[^0-9]/g, ''), index): the new otp array;
\* index counts from 1 here
handleOtpChange(otp, typed, index) ==
    LET value == SelectSeq(typed, LAMBDA c : c \in Digits)
        pastedOtp == SubSeq(value, 1, IF Len(value) < OTP_LENGTH
                                      THEN Len(value) ELSE OTP_LENGTH)
    IN  IF Len(value) > 1
        THEN [k \in 1..OTP_LENGTH |->
                IF k >= index /\ k - index + 1 <= Len(pastedOtp)
                THEN <<pastedOtp[k - index + 1]>> ELSE otp[k]]
        ELSE [otp EXCEPT ![index] = value]

handleSendOtp(s) ==
    IF Trim(s.email) = <<>>
    THEN [s |-> [s EXCEPT !.errors = {<<"email", "Email is required">>}],
          req |-> NoItem, alert |-> "none"]
    ELSE IF ~EmailRegex(s.email)
    THEN [s |-> [s EXCEPT !.errors = {<<"email", "Invalid email format">>}],
          req |-> NoItem, alert |-> "none"]
    ELSE [s |-> [s EXCEPT !.loading = TRUE, !.errors = {}],
          req |-> <<[kind |-> "forgotPassword",
                     body |-> [email |-> ToLowerCase(Trim(s.email))]]>>,
          alert |-> "none"]

\* handleVerifyOtp that sends whatever has been entered
handleVerifyOtpAnyLength(s) ==
    [s |-> [s EXCEPT !.loading = TRUE],
     req |-> <<[kind |-> "verifyResetOtp",
                body |-> [email |-> ToLowerCase(Trim(s.email)),
                          otp |-> Join(s.otp)]]>>,
     alert |-> "none"]

handleVerifyOtp(s) ==
    LET otpCode == Join(s.otp)
    IN  IF Len(otpCode) # OTP_LENGTH
        THEN [s |-> s, req |-> NoItem, alert |-> "Error"]
        ELSE [s |-> [s EXCEPT !.loading = TRUE],
              req |-> <<[kind |-> "verifyResetOtp",
                         body |-> [email |-> ToLowerCase(Trim(s.email)),
                                   otp |-> otpCode]]>>,
              alert |-> "none"]

\* handleResetPassword without 'if (loading) return'
handleResetPasswordNoGuard(s) ==
    LET newErrors ==
            (IF s.newPassword = <<>>
             THEN {<<"newPassword", "Password is required">>}
             ELSE IF Len(s.newPassword) < MinResetPasswordLength
             THEN {<<"newPassword", "Password must be at least 6 characters">>}
             ELSE {})
            \cup
            (IF s.confirmPassword = <<>>
             THEN {<<"confirmPassword", "Please confirm your password">>}
             ELSE IF s.newPassword # s.confirmPassword
             THEN {<<"confirmPassword", "Passwords do not match">>} ELSE {})
    IN  IF newErrors # {}
        THEN [s |-> [s EXCEPT !.errors = newErrors], req |-> NoItem,
              alert |-> "none"]
        ELSE [s |-> [s EXCEPT !.loading = TRUE, !.errors = {}],
              req |-> <<[kind |-> "resetPassword",
                         body |-> [email |-> ToLowerCase(Trim(s.email)),
                                   otp |-> s.verifiedOtp,
                                   newPassword |-> s.newPassword]]>>,
              alert |-> "none"]

handleResetPassword(s) ==
    IF s.loading
    THEN [s |-> s, req |-> NoItem, alert |-> "none"]
    ELSE handleResetPasswordNoGuard(s)

handleResendOtp(s) ==
    IF ~s.canResend
    THEN [s |-> s, req |-> NoItem, alert |-> "none"]
    ELSE [s |-> [s EXCEPT !.loading = TRUE],
          req |-> <<[kind |-> "resendResetOtp",
                     body |-> [email |-> ToLowerCase(Trim(s.email))]]>>,
          alert |-> "none"]

(***************************************************************************)
(* OTPScreen (signup): state and handlers                                  *)
(***************************************************************************)
OtpScreenMount ==
    [otp |-> EmptyOtp, loading |-> FALSE, resendLoading |-> FALSE,
     countdown |-> ResendSeconds, canResend |-> FALSE]

\* route.params.email is the e-mail the signup request returned
handleVerify(s) ==
    LET otpCode == Join(s.otp)
    IN  IF Len(otpCode) # OTP_LENGTH
        THEN [s |-> s, req |-> NoItem, alert |-> "Error"]
        ELSE [s |-> [s EXCEPT !.loading = TRUE],
              req |-> <<[kind |-> "verifyOTP",
                         body |-> [email |-> <<"a", "@", "a", ".", "a">>,
                                   otp |-> otpCode]]>>,
              alert |-> "none"]

handleResend(s) ==
    IF ~s.canResend
    THEN [s |-> s, req |-> NoItem, alert |-> "none"]
    ELSE [s |-> [s EXCEPT !.resendLoading = TRUE],
          req |-> <<[kind |-> "resendOTP",
                     body |-> [email |-> <<"a", "@", "a", ".", "a">>]]>>,
          alert |-> "none"]

\* useState initial values of the screen named; appointments starts as [],
\* which is also what its catch block sets
FetchScreenMount(screen) ==
    [screen |-> screen, loading |-> TRUE, refreshing |-> FALSE,
     data |-> [k \in FetchKinds |->
                 IF k = "appointments" THEN "default" ELSE "null"],
     failed |-> FALSE]

\* the main screens, not opened
MainScreensInit ==
    /\ fetchScreen = FetchScreenMount("none")
    /\ planScreen = NoItem
    /\ requested = NoItem

ScreensInit ==
    /\ signupScreen = SignupScreenMount
    /\ forgotScreen = ForgotScreenMount
    /\ otpScreen = OtpScreenMount
    /\ MainScreensInit

(***************************************************************************)
(* Auth context and auth screens: actions                                  *)
(***************************************************************************)
\* AuthProvider mounts: useEffect -> loadUserFromStorage
LoadUserFromStorage ==
    /\ isLoading
    /\ LET loaded == loadUserFromStorage(storage)
       IN  /\ token' = loaded.token
           /\ user' = loaded.user
    /\ isLoading' = FALSE
    /\ authScreen' = "Login"
    /\ UNCHANGED <<storage, inflight, errorAlert, stepVars>>
    /\ UNCHANGED screenVars

\* the app is closed and opened again: memory is lost, storage is kept
Restart ==
    /\ ~isLoading
    /\ ~MicrotaskPending
    /\ user' = Null
    /\ token' = Null
    /\ isLoading' = TRUE
    /\ inflight' = <<>>
    /\ authScreen' = "Login"
    /\ errorAlert' = "none"
    /\ UNCHANGED <<storage, stepVars>>
    /\ UNCHANGED screenVars

Send(kind) ==
    /\ CanSend
    /\ inflight' = Append(inflight, NewRequest(kind, NoItem))
    /\ UNCHANGED <<storage, user, token, isLoading, authScreen, errorAlert,
                   stepVars>>
    /\ UNCHANGED screenVars

\* LoginScreen.handleLogin -> login -> authService.login
Login ==
    /\ ~isAuthenticated /\ authScreen = "Login" /\ ~Busy({"login"})
    /\ Send("login")

\* SignupScreen.handleSignup -> signup -> authService.signup
Signup ==
    /\ ~isAuthenticated /\ authScreen = "Signup" /\ ~Busy({"signup"})
    /\ Send("signup")

\* OTPScreen.handleVerify -> verifyOTP -> authService.verifyOTP
VerifyOTP ==
    /\ ~isAuthenticated /\ authScreen = "OTP" /\ ~Busy({"verifyOTP"})
    /\ Send("verifyOTP")

\* OTPScreen.handleResend -> resendOTP -> authService.resendOTP
\* (the 60 s countdown that sets canResend is taken to have run out)
ResendOTP ==
    /\ ~isAuthenticated /\ authScreen = "OTP" /\ ~Busy({"resendOTP"})
    /\ Send("resendOTP")

\* ProfileScreen.handleLogout -> logout -> authService.logout
Logout ==
    /\ isAuthenticated
    /\ Send("logout")

\* ProfileScreen.updateProfile: PUT /api/auth/update-profile
UpdateProfile ==
    /\ isAuthenticated /\ ~Busy({"updateProfile", "getUser"})
    /\ Send("updateProfile")

\* Login -> Signup link
GoToSignup ==
    /\ ScreenReady
    /\ ~isAuthenticated /\ authScreen = "Login"
    /\ authScreen' = "Signup"
    /\ UNCHANGED <<storage, user, token, isLoading, inflight, errorAlert,
                   stepVars>>
    /\ UNCHANGED screenVars

\* back button of the Signup / OTP screen: the screen is popped
GoBack ==
    /\ ScreenReady
    /\ ~isAuthenticated /\ authScreen \in {"Signup", "OTP"}
    /\ authScreen' = IF authScreen = "OTP" THEN "Signup" ELSE "Login"
    /\ inflight' = MarkDead(inflight, IF authScreen = "OTP"
                                       THEN {"verifyOTP", "resendOTP"}
                                       ELSE {"signup"})
    /\ UNCHANGED <<storage, user, token, isLoading, errorAlert, stepVars>>
    /\ UNCHANGED screenVars

\* OK of an error dialog
DismissError ==
    /\ ~MicrotaskPending
    /\ errorAlert # "none"
    /\ errorAlert' = "none"
    /\ UNCHANGED <<storage, user, token, isLoading, authScreen, inflight,
                   stepVars>>
    /\ UNCHANGED screenVars

\* the server answers request i and the response interceptor runs
Respond(i, status, payload) ==
    /\ ~MicrotaskPending
    /\ inflight[i].stage = "sent"
    /\ payload \in Payloads(inflight[i].kind, status)
    /\ inflight' = [inflight EXCEPT ![i] =
            [@ EXCEPT !.stage = "intercepted", !.status = status,
                      !.respUser = payload.user, !.respToken = payload.token,
                      !.auth = NoItem]]
    /\ storage' = ResponseInterceptor(status, storage)
    /\ UNCHANGED <<user, token, isLoading, authScreen, errorAlert, stepVars>>
    /\ UNCHANGED screenVars

\* what the catch block of the screen that sent the request shows
ErrorTitle(kind) ==
    CASE kind = "login" -> "Login Failed"
      [] kind = "verifyOTP" -> "Verification Failed"
      [] kind = "signup" -> "Signup Failed"
      [] OTHER -> "Error"

\* The code that runs after the awaited request i settles: the auth context
\* function that sent it and the screen handler around it.
Continuation(r) ==
    LET same == [user |-> user, token |-> token, storage |-> storage,
                 err |-> errorAlert, next |-> NoItem, nav |-> authScreen]
    IN  CASE r.kind \in {"login", "verifyOTP"} ->
                \* login / verifyOTP: saveAuthData on success, re-throw on failure
                IF r.status = OK
                THEN [same EXCEPT !.user = r.respUser, !.token = r.respToken,
                                  !.storage = saveAuthData(r.respUser, r.respToken)]
                ELSE [same EXCEPT !.err = ErrorTitle(r.kind)]
          [] r.kind = "signup" ->
                \* signup: navigation.navigate('OTP') on success
                IF r.status = OK
                THEN [same EXCEPT !.nav = "OTP"]
                ELSE [same EXCEPT !.err = ErrorTitle(r.kind)]
          [] r.kind = "resendOTP" ->
                IF r.status = OK THEN same
                ELSE [same EXCEPT !.err = ErrorTitle(r.kind)]
          [] r.kind = "logout" ->
                \* authService.logout swallows the error; finally clearAuthData
                [same EXCEPT !.user = Null, !.token = Null,
                             !.storage = clearAuthData(storage)]
          [] r.kind = "updateProfile" ->
                \* if (response.data.user) await refreshUser()
                IF r.status = OK
                THEN IF r.respUser # Null /\ r.ctxToken # Null
                     THEN [same EXCEPT !.next =
                            <<[NewRequest("getUser", NoItem) EXCEPT
                                    !.ctxToken = r.ctxToken, !.alive = r.alive]>>]
                     ELSE same
                ELSE [same EXCEPT !.err = ErrorTitle(r.kind)]
          [] r.kind = "getUser" ->
                \* refreshUser: updateUser(response.user), errors only logged
                IF r.status = OK
                THEN [same EXCEPT !.user = r.respUser,
                                  !.storage = updateUser(storage, r.respUser)]
                ELSE same
          [] OTHER -> same

Continue(i) ==
    /\ inflight[i].stage = "intercepted"
    /\ inflight[i].kind # "saveSteps"
    /\ inflight[i].status = Unauthorized => ~MicrotaskPending
    /\ LET r == inflight[i]
           c == Continuation(r)
           rest == SubSeq(inflight, 1, i - 1) \o c.next
                    \o SubSeq(inflight, i + 1, Len(inflight))
       IN  /\ user' = c.user
           /\ token' = c.token
           /\ storage' = c.storage
           /\ errorAlert' = c.err
           /\ inflight' = Remount(rest, isAuthenticated, IsAuth(c.user, c.token))
           /\ authScreen' = IF IsAuth(c.user, c.token) \/ isAuthenticated
                            THEN "Login" ELSE c.nav
    /\ UNCHANGED <<isLoading, stepVars>>
    /\ UNCHANGED screenVars

AuthInit ==
    /\ storage = EmptyStorage
    /\ user = Null
    /\ token = Null
    /\ isLoading = TRUE
    /\ authScreen = "Login"
    /\ inflight = <<>>
    /\ errorAlert = "none"

AuthNext ==
    \/ LoadUserFromStorage
    \/ Restart
    \/ Login
    \/ Signup
    \/ VerifyOTP
    \/ ResendOTP
    \/ Logout
    \/ UpdateProfile
    \/ GoToSignup
    \/ GoBack
    \/ DismissError
    \/ \E i \in 1..Len(inflight) : \E status \in Statuses :
            \E payload \in Payloads(inflight[i].kind, status) :
                Respond(i, status, payload)
    \/ \E i \in 1..Len(inflight) : Continue(i)

(***************************************************************************)
(* Step counter screen: actions                                            *)
(***************************************************************************)
\* resetSession that forgets setStartTime(null)
resetSessionKeepsStart ==
    [sessionSteps |-> 0, startTime |-> startTime, duration |-> 0, lastZ |-> 0,
     stepState |-> "down", lastStepTime |-> 0, debugInfo |-> "Ready"]

\* resetSession: the values it leaves in the state and the refs
resetSession ==
    [sessionSteps |-> 0, startTime |-> NoTime, duration |-> 0, lastZ |-> 0,
     stepState |-> "down", lastStepTime |-> 0, debugInfo |-> "Ready"]

ApplyReset ==
    /\ sessionSteps' = resetSession.sessionSteps
    /\ startTime' = resetSession.startTime
    /\ duration' = resetSession.duration
    /\ lastZ' = resetSession.lastZ
    /\ stepState' = resetSession.stepState
    /\ lastStepTime' = resetSession.lastStepTime
    /\ debugInfo' = resetSession.debugInfo

\* user events reach the screen only when no dialog covers it
ScreenIdle == mounted /\ alert = "none" /\ ~isSaving /\ ~MicrotaskPending

\* time passes
Tick(d) ==
    /\ ~MicrotaskPending
    /\ now + d <= MaxTime
    /\ now' = now + d
    /\ UNCHANGED <<isCounting, sessionSteps, startTime, duration, isSaving,
                   debugInfo, lastZ, stepState, lastStepTime, subscribed, alert,
                   alertInfo, session, mounted, authVars>>
    /\ UNCHANGED screenVars

\* the 1 s interval of the duration effect
DurationTimer ==
    /\ ~MicrotaskPending
    /\ mounted /\ isCounting /\ startTime # NoTime
    /\ duration' = (now - startTime) \div 1000
    /\ UNCHANGED <<now, isCounting, sessionSteps, startTime, isSaving,
                   debugInfo, lastZ, stepState, lastStepTime, subscribed, alert,
                   alertInfo, session, mounted, authVars>>
    /\ UNCHANGED screenVars

\* startCounting: the state and refs it sets before it subscribes
startCounting(t) ==
    [sessionSteps |-> 0, startTime |-> t, duration |-> 0, lastZ |-> 0,
     stepState |-> "down", lastStepTime |-> t]

StartCounting ==
    /\ ScreenIdle /\ ~isCounting
    /\ LET st == startCounting(now)
       IN  /\ sessionSteps' = st.sessionSteps
           /\ startTime' = st.startTime
           /\ duration' = st.duration
           /\ lastZ' = st.lastZ
           /\ stepState' = st.stepState
           /\ lastStepTime' = st.lastStepTime
    /\ isCounting' = TRUE
    /\ subscribed' = TRUE
    /\ debugInfo' = "Walking"
    /\ UNCHANGED <<now, isSaving, alert, alertInfo, session, mounted, authVars>>
    /\ UNCHANGED screenVars

\* startCounting when Accelerometer.setUpdateInterval / addListener throws
StartCountingError ==
    /\ ScreenIdle /\ ~isCounting
    /\ LET st == startCounting(now)
       IN  /\ sessionSteps' = st.sessionSteps
           /\ startTime' = st.startTime
           /\ duration' = st.duration
           /\ lastZ' = st.lastZ
           /\ stepState' = st.stepState
           /\ lastStepTime' = st.lastStepTime
    /\ isCounting' = FALSE
    /\ debugInfo' = "Error"
    /\ alert' = "Error"
    /\ UNCHANGED <<now, isSaving, subscribed, alertInfo, session, mounted,
                   authVars>>
    /\ UNCHANGED screenVars

\* the Accelerometer listener receives a reading
Sample(s) ==
    /\ ~MicrotaskPending
    /\ subscribed
    /\ LET out == Listener(s, now, stepState, lastStepTime)
       IN  /\ stepState' = out.stepState
           /\ lastStepTime' = out.lastStepTime
           /\ lastZ' = out.lastZ
           /\ sessionSteps' = sessionSteps + out.inc
           /\ debugInfo' = IF out.inc > 0 THEN "Step!" ELSE debugInfo
    /\ UNCHANGED <<now, isCounting, startTime, duration, isSaving, subscribed,
                   alert, alertInfo, session, mounted, authVars>>
    /\ UNCHANGED screenVars

\* stopCounting
StopCounting ==
    /\ ScreenIdle /\ isCounting
    /\ subscribed' = FALSE
    /\ isCounting' = FALSE
    /\ IF sessionSteps = 0
       THEN /\ alert' = "No Steps Recorded"
            /\ ApplyReset
            /\ UNCHANGED alertInfo
       ELSE /\ alert' = "Session Complete"
            /\ alertInfo' = <<[steps |-> sessionSteps,
                               distance |-> DistanceKm2(sessionSteps),
                               calories |-> CaloriesKcal0(sessionSteps),
                               duration |-> duration,
                               startTime |-> startTime]>>
            /\ debugInfo' = "Stopped"
            /\ UNCHANGED <<sessionSteps, startTime, duration, lastZ, stepState,
                           lastStepTime>>
    /\ UNCHANGED <<now, isSaving, session, mounted, authVars>>
    /\ UNCHANGED screenVars

\* saveSession up to its await: POST /health/steps
saveSession(sess) ==
    /\ Len(inflight) < MaxInFlight
    /\ isSaving' = TRUE
    /\ debugInfo' = "Saving"
    /\ session' = <<sess>>
    /\ alert' = "none"
    /\ inflight' = Append(inflight, NewRequest("saveSteps",
            <<[steps |-> sess.steps, distance |-> sess.distance,
               calories |-> sess.calories, startTime |-> sess.startTime,
               endTime |-> sess.endTime, duration |-> alertInfo[1].duration]>>))
    /\ UNCHANGED <<now, isCounting, sessionSteps, startTime, duration, lastZ,
                   stepState, lastStepTime, subscribed, alertInfo, mounted,
                   storage, user, token, isLoading, authScreen, errorAlert>>
    /\ UNCHANGED screenVars

\* 'Save' of the Session Complete dialog
PressSave ==
    /\ ~MicrotaskPending
    /\ alert = "Session Complete"
    /\ saveSession(MakeSession(alertInfo[1].steps, alertInfo[1].startTime, now))

\* 'Retry' of the Save Failed dialog
PressRetry ==
    /\ ~MicrotaskPending
    /\ alert = "Save Failed"
    /\ saveSession(session[1])

\* 'Discard' of either dialog, 'Great!' of the Session Saved dialog
PressReset(button) ==
    /\ ~MicrotaskPending
    /\ \/ button = "Discard" /\ alert \in {"Session Complete", "Save Failed"}
       \/ button = "Great!" /\ alert = "Session Saved"
    /\ ApplyReset
    /\ alert' = "none"
    /\ alertInfo' = NoItem
    /\ session' = NoItem
    /\ UNCHANGED <<now, isCounting, isSaving, subscribed, mounted, authVars>>
    /\ UNCHANGED screenVars

\* OK of a dialog without handlers
DismissAlert ==
    /\ ~MicrotaskPending
    /\ alert \in {"No Steps Recorded", "Error"}
    /\ alert' = "none"
    /\ UNCHANGED <<now, isCounting, sessionSteps, startTime, duration, isSaving,
                   debugInfo, lastZ, stepState, lastStepTime, subscribed,
                   alertInfo, session, mounted, authVars>>
    /\ UNCHANGED screenVars

\* saveSession after its await, with a catch block that sends the session
\* again by itself instead of asking
ContinueSaveAutoRetry(i) ==
    /\ inflight[i].stage = "intercepted"
    /\ inflight[i].kind = "saveSteps"
    /\ inflight[i].status = Unauthorized => ~MicrotaskPending
    /\ IF inflight[i].status = OK
       THEN /\ debugInfo' = "Saved" /\ alert' = "Session Saved"
            /\ isSaving' = FALSE
            /\ inflight' = RemoveAt(inflight, i)
       ELSE /\ debugInfo' = "Saving" /\ alert' = "none"
            /\ isSaving' = TRUE
            /\ inflight' = Append(RemoveAt(inflight, i),
                                  NewRequest("saveSteps", inflight[i].body))
    /\ UNCHANGED <<now, isCounting, sessionSteps, startTime, duration, lastZ,
                   stepState, lastStepTime, subscribed, alertInfo, session,
                   mounted, storage, user, token, isLoading, authScreen,
                   errorAlert>>
    /\ UNCHANGED screenVars

\* saveSession after its await: try / catch / finally
ContinueSave(i) ==
    /\ inflight[i].stage = "intercepted"
    /\ inflight[i].kind = "saveSteps"
    /\ inflight[i].status = Unauthorized => ~MicrotaskPending
    /\ IF inflight[i].status = OK
       THEN debugInfo' = "Saved" /\ alert' = "Session Saved"
       ELSE debugInfo' = "Save failed" /\ alert' = "Save Failed"
    /\ isSaving' = FALSE
    /\ inflight' = RemoveAt(inflight, i)
    /\ UNCHANGED <<now, isCounting, sessionSteps, startTime, duration, lastZ,
                   stepState, lastStepTime, subscribed, alertInfo, session,
                   mounted, storage, user, token, isLoading, authScreen,
                   errorAlert>>
    /\ UNCHANGED screenVars

StepScreenInit(isMounted) ==
    /\ now = Epoch
    /\ isCounting = FALSE
    /\ sessionSteps = 0
    /\ startTime = NoTime
    /\ duration = 0
    /\ isSaving = FALSE
    /\ debugInfo = "Checking sensors..."
    /\ lastZ = 0
    /\ stepState = "down"
    /\ lastStepTime = 0
    /\ subscribed = FALSE
    /\ alert = "none"
    /\ alertInfo = NoItem
    /\ session = NoItem
    /\ mounted = isMounted

\* the screen is left and its cleanup effect leaves the listener subscribed
UnmountKeepsListener ==
    /\ ScreenIdle
    /\ mounted' = FALSE
    /\ isCounting' = FALSE
    /\ sessionSteps' = 0
    /\ startTime' = NoTime
    /\ duration' = 0
    /\ debugInfo' = "Checking sensors..."
    /\ lastZ' = 0
    /\ stepState' = "down"
    /\ lastStepTime' = 0
    /\ UNCHANGED <<now, isSaving, subscribed, alert, alertInfo, session,
                   authVars>>
    /\ UNCHANGED screenVars

\* the screen is left (back button): the cleanup effect removes the listener
Unmount ==
    /\ ScreenIdle
    /\ subscribed' = FALSE
    /\ mounted' = FALSE
    /\ isCounting' = FALSE
    /\ sessionSteps' = 0
    /\ startTime' = NoTime
    /\ duration' = 0
    /\ debugInfo' = "Checking sensors..."
    /\ lastZ' = 0
    /\ stepState' = "down"
    /\ lastStepTime' = 0
    /\ UNCHANGED <<now, isSaving, alert, alertInfo, session, authVars>>
    /\ UNCHANGED screenVars

\* the screen is opened
Mount ==
    /\ ~MicrotaskPending
    /\ ~mounted
    /\ mounted' = TRUE
    /\ UNCHANGED <<now, isCounting, sessionSteps, startTime, duration, isSaving,
                   debugInfo, lastZ, stepState, lastStepTime, subscribed, alert,
                   alertInfo, session, authVars>>
    /\ UNCHANGED screenVars

\* a logged-in user on the step counter screen
LoggedIn ==
    /\ storage = saveAuthData("u1", "t1")
    /\ user = "u1"
    /\ token = "t1"
    /\ isLoading = FALSE
    /\ authScreen = "Login"
    /\ inflight = <<>>
    /\ errorAlert = "none"

StepInit == StepScreenInit(TRUE) /\ LoggedIn /\ ScreensInit

SaveFlow ==
    \/ PressSave
    \/ PressRetry
    \/ \E button \in {"Discard", "Great!"} : PressReset(button)
    \/ DismissAlert
    \/ \E i \in 1..Len(inflight) : \E status \in Statuses :
            \E payload \in Payloads(inflight[i].kind, status) :
                Respond(i, status, payload)
    \/ \E i \in 1..Len(inflight) : ContinueSave(i)

StepNext ==
    \/ \E d \in Deltas : Tick(d)
    \/ DurationTimer
    \/ StartCounting
    \/ StartCountingError
    \/ \E s \in Samples : Sample(s)
    \/ StopCounting
    \/ Unmount
    \/ Mount
    \/ SaveFlow

StepSpec == StepInit /\ [][StepNext]_vars

\* the auth context from a first start of the app, no step counter screen
Init == StepScreenInit(FALSE) /\ AuthInit /\ ScreensInit
Next == AuthNext
Spec == Init /\ [][Next]_vars

\* a counting session that has reached any step count, about to be stopped
MetricsInit ==
    /\ sessionSteps \in 0..MaxMetricSteps
    /\ now = Epoch + sessionSteps * (MinStepInterval + 1)
    /\ isCounting = TRUE
    /\ startTime = Epoch
    /\ duration = 0
    /\ isSaving = FALSE
    /\ debugInfo = IF sessionSteps = 0 THEN "Walking" ELSE "Step!"
    /\ lastZ = IF sessionSteps = 0 THEN 0 ELSE -9
    /\ stepState = "down"
    /\ lastStepTime = now
    /\ subscribed = TRUE
    /\ alert = "none"
    /\ alertInfo = NoItem
    /\ session = NoItem
    /\ mounted = TRUE
    /\ LoggedIn
    /\ ScreensInit
MetricsNext == StopCounting \/ SaveFlow
MetricsSpec == MetricsInit /\ [][MetricsNext]_vars

(***************************************************************************)
(* SignupScreen: the form                                                  *)
(***************************************************************************)
\* what the user may have typed: one field takes every value of its set
\* while the others take a few
SignupForms ==
    LET SeqsUpTo(chars, n) == UNION {[1..m -> chars] : m \in 0..n}
        TypedNames == {<<>>, <<" ">>, <<"a">>, <<" ", "a", "\n">>}
        TypedEmails == SeqsUpTo({"a", "A", "@", ".", " "}, MaxEmailLen)
        Pads == {<<>>, [k \in 1..(MinPasswordLength - MaxCoreLen - 1) |-> "a"]}
                \cup {[k \in 1..(MinPasswordLength - MaxCoreLen) |-> c] :
                        c \in {"a", "A", "1"}}
        TypedPasswords ==
            {core \o pad :
                core \in SeqsUpTo({"a", "A", "1", "!", " ", "\n"}, MaxCoreLen),
                pad \in Pads}
        GoodEmail == <<"a", "@", "a", ".", "a">>
        GoodPassword == <<"A", "1", "!", "a", "a", "a", "a", "a">>
        form(fn, ln, em, pw, cp) ==
            [SignupScreenMount EXCEPT !.firstName = fn, !.lastName = ln,
                                      !.email = em, !.password = pw,
                                      !.confirmPassword = cp]
    IN  {form(fn, ln, GoodEmail, GoodPassword, GoodPassword) :
            fn \in TypedNames, ln \in TypedNames}
        \cup {form(<<"a">>, <<"a">>, em, GoodPassword, GoodPassword) :
                em \in TypedEmails}
        \cup UNION {{form(<<"a">>, <<"a">>, GoodEmail, pw, cp) :
                        cp \in {pw, <<>>, GoodPassword}} :
                    pw \in TypedPasswords}

\* handleSignup up to its await
HandleSignup ==
    /\ CanSend
    /\ authScreen = "Signup"
    /\ ~signupScreen.loading
    /\ LET v == validateForm(signupScreen)
       IN  IF ~v.ok
           THEN /\ signupScreen' = [signupScreen EXCEPT !.errors = v.errors]
                /\ UNCHANGED inflight
           ELSE /\ signupScreen' = [signupScreen EXCEPT !.errors = v.errors,
                                                        !.loading = TRUE]
                /\ inflight' = Append(inflight, NewRequest("signup",
                        <<[email |-> ToLowerCase(Trim(signupScreen.email)),
                           password |-> signupScreen.password,
                           confirmPassword |-> signupScreen.confirmPassword,
                           firstName |-> Trim(signupScreen.firstName),
                           lastName |-> Trim(signupScreen.lastName),
                           userType |-> "patient"]>>))
    /\ UNCHANGED <<storage, user, token, isLoading, authScreen, errorAlert,
                   stepVars, mainVars, forgotScreen,
                   otpScreen>>

\* handleSignup after its await: try / catch / finally
ContinueSignup(i) ==
    /\ inflight[i].stage = "intercepted"
    /\ inflight[i].kind = "signup"
    /\ inflight[i].status = Unauthorized => ~MicrotaskPending
    /\ LET c == Continuation(inflight[i])
       IN  /\ errorAlert' = c.err
           /\ authScreen' = c.nav
    /\ inflight' = RemoveAt(inflight, i)
    /\ signupScreen' = [signupScreen EXCEPT !.loading = FALSE]
    /\ UNCHANGED <<storage, user, token, isLoading, stepVars, mainVars,
                   forgotScreen,
                   otpScreen>>

\* the app has loaded with nobody logged in
LoggedOut(screen) ==
    /\ storage = EmptyStorage
    /\ user = Null
    /\ token = Null
    /\ isLoading = FALSE
    /\ authScreen = screen
    /\ inflight = <<>>
    /\ errorAlert = "none"

SignupInit ==
    /\ StepScreenInit(FALSE)
    /\ LoggedOut("Signup")
    /\ signupScreen \in SignupForms
    /\ forgotScreen = ForgotScreenMount
    /\ otpScreen = OtpScreenMount
    /\ MainScreensInit

SignupNext ==
    \/ HandleSignup
    \/ \E i \in 1..Len(inflight) : \E status \in Statuses :
            \E payload \in Payloads(inflight[i].kind, status) :
                Respond(i, status, payload)
    \/ \E i \in 1..Len(inflight) : ContinueSignup(i)
    \/ DismissError
    \/ GoBack

SignupSpec == SignupInit /\ [][SignupNext]_vars

(***************************************************************************)
(* ForgotPasswordScreen: actions                                           *)
(***************************************************************************)
ForgotKinds == {"forgotPassword", "verifyResetOtp", "resetPassword",
                "resendResetOtp"}

\* a handler of the screen runs up to its await (or to its return)
RunForgotHandler(r) ==
    /\ r.req # NoItem => Len(inflight) < MaxInFlight
    /\ forgotScreen' = r.s
    /\ errorAlert' = r.alert
    /\ inflight' = IF r.req = NoItem THEN inflight
                   ELSE Append(inflight,
                               NewRequest(r.req[1].kind, <<r.req[1].body>>))
    /\ UNCHANGED <<storage, user, token, isLoading, authScreen,
                   stepVars, mainVars,
                   signupScreen, otpScreen>>

\* a button of the step on screen is pressed; Button is disabled while
\* loading, 'Verify Code' also while the code is incomplete, and 'Resend
\* Code' is rendered only when canResend
PressForgotButton ==
    /\ ScreenReady
    /\ authScreen = "ForgotPassword"
    /\ ~forgotScreen.loading
    /\ \/ /\ forgotScreen.step = "email"
          /\ RunForgotHandler(handleSendOtp(forgotScreen))
       \/ /\ forgotScreen.step = "otp"
          /\ Len(Join(forgotScreen.otp)) = OTP_LENGTH
          /\ RunForgotHandler(handleVerifyOtp(forgotScreen))
       \/ /\ forgotScreen.step = "otp"
          /\ forgotScreen.canResend
          /\ RunForgotHandler(handleResendOtp(forgotScreen))
       \/ /\ forgotScreen.step = "newPassword"
          /\ RunForgotHandler(handleResetPassword(forgotScreen))

\* what is typed into the OTP fields, and into which field: the last digit
\* is deleted, or a whole code is pasted into the first field
TypedOtp ==
    {<<<<>>, OTP_LENGTH>>} \cup {<<[k \in 1..OTP_LENGTH |-> c], 1>> : c \in Digits}

\* the countdown effect of both OTP screens: its 1 s timer fires and, when
\* the countdown is at 0, the effect sets canResend. The seconds between
\* ResendSeconds - 1 and 1 pass without any other event and are one step.
CountdownEffect(s) ==
    LET elapsed == IF s.countdown = ResendSeconds - 1
                   THEN ResendSeconds - 2 ELSE 1
    IN  [s EXCEPT !.countdown = @ - elapsed,
                  !.canResend = (s.countdown - elapsed = 0)]

\* text is typed into an input of the step on screen
TypeForgot ==
    /\ ScreenReady
    /\ authScreen = "ForgotPassword"
    /\ \/ /\ forgotScreen.step = "email"
          /\ \E typed \in {<<"a", "@", "a", ".", "a">>,
                           <<"B", "@", "a", ".", "a">>} :
                forgotScreen' = [forgotScreen EXCEPT !.email = typed]
       \/ /\ forgotScreen.step = "otp"
          /\ \E in \in TypedOtp :
                forgotScreen' = [forgotScreen EXCEPT
                    !.otp = handleOtpChange(@, in[1], in[2])]
       \/ /\ forgotScreen.step = "newPassword"
          /\ \E n \in {MinResetPasswordLength - 1, MinResetPasswordLength} :
                forgotScreen' = [forgotScreen EXCEPT
                    !.newPassword = [k \in 1..n |-> "a"]]
       \/ /\ forgotScreen.step = "newPassword"
          /\ forgotScreen' = [forgotScreen EXCEPT
                !.confirmPassword = [k \in 1..MinResetPasswordLength |-> "a"]]
    /\ UNCHANGED <<authVars, stepVars, mainVars,
                   signupScreen, otpScreen>>

CountdownTimer ==
    /\ ~MicrotaskPending
    /\ authScreen = "ForgotPassword"
    /\ forgotScreen.step = "otp"
    /\ forgotScreen.countdown > 0 /\ ~forgotScreen.canResend
    /\ forgotScreen' = CountdownEffect(forgotScreen)
    /\ UNCHANGED <<authVars, stepVars, mainVars,
                   signupScreen, otpScreen>>

\* the back button, and the 'Back to Login' link
ForgotBack ==
    /\ ScreenReady
    /\ authScreen = "ForgotPassword"
    /\ \/ /\ forgotScreen.step = "newPassword"
          /\ forgotScreen' = [forgotScreen EXCEPT !.step = "otp"]
          /\ UNCHANGED <<authScreen, inflight>>
       \/ /\ forgotScreen.step = "otp"
          /\ forgotScreen' = [forgotScreen EXCEPT !.step = "email"]
          /\ UNCHANGED <<authScreen, inflight>>
       \/ /\ authScreen' = "Login"
          /\ inflight' = MarkDead(inflight, ForgotKinds)
          /\ UNCHANGED forgotScreen
    /\ UNCHANGED <<storage, user, token, isLoading, errorAlert,
                   stepVars, mainVars,
                   signupScreen, otpScreen>>

\* a handler of the screen after its await: try / catch / finally
ContinueForgot(i) ==
    /\ inflight[i].stage = "intercepted"
    /\ inflight[i].kind \in ForgotKinds
    /\ inflight[i].status = Unauthorized => ~MicrotaskPending
    /\ LET r == inflight[i]
           ok == r.status = OK
           s == forgotScreen
           after ==
             CASE r.kind = "forgotPassword" ->
                    IF ok THEN [s EXCEPT !.step = "otp",
                                         !.countdown = ResendSeconds,
                                         !.canResend = FALSE]
                    ELSE s
               [] r.kind = "verifyResetOtp" ->
                    IF ok THEN [s EXCEPT !.verifiedOtp = r.body[1].otp,
                                         !.step = "newPassword",
                                         !.accepted = r.body]
                    ELSE [s EXCEPT !.otp = EmptyOtp]
               [] r.kind = "resetPassword" -> s
               [] r.kind = "resendResetOtp" ->
                    IF ok THEN [s EXCEPT !.canResend = FALSE,
                                         !.countdown = ResendSeconds,
                                         !.otp = EmptyOtp]
                    ELSE s
       IN  /\ forgotScreen' = IF r.alive THEN [after EXCEPT !.loading = FALSE]
                              ELSE forgotScreen
           /\ errorAlert' =
                IF ~ok THEN "Error"
                ELSE IF r.kind = "resetPassword" THEN "Password Reset Successful"
                ELSE IF r.kind = "resendResetOtp" THEN "Success"
                ELSE errorAlert
    /\ inflight' = RemoveAt(inflight, i)
    /\ UNCHANGED <<storage, user, token, isLoading, authScreen,
                   stepVars, mainVars,
                   signupScreen, otpScreen>>

\* OK of the 'Password Reset Successful' dialog: navigation.navigate('Login')
DismissResetDone ==
    /\ ~MicrotaskPending
    /\ errorAlert = "Password Reset Successful"
    /\ errorAlert' = "none"
    /\ authScreen' = "Login"
    /\ inflight' = MarkDead(inflight, ForgotKinds)
    /\ UNCHANGED <<storage, user, token, isLoading, stepVars, screenVars>>

(***************************************************************************)
(* OTPScreen (signup): actions                                             *)
(***************************************************************************)
\* 'Verify Email' (disabled while loading or while the code is incomplete)
\* or 'Resend Code' (rendered when canResend, disabled while resendLoading)
PressOtpButton ==
    /\ ScreenReady
    /\ authScreen = "OTP"
    /\ Len(inflight) < MaxInFlight
    /\ LET run(r) ==
            /\ otpScreen' = r.s
            /\ errorAlert' = r.alert
            /\ inflight' = IF r.req = NoItem THEN inflight
                           ELSE Append(inflight, NewRequest(r.req[1].kind,
                                                            <<r.req[1].body>>))
       IN  \/ /\ ~otpScreen.loading
              /\ Len(Join(otpScreen.otp)) = OTP_LENGTH
              /\ run(handleVerify(otpScreen))
           \/ /\ otpScreen.canResend /\ ~otpScreen.resendLoading
              /\ run(handleResend(otpScreen))
    /\ UNCHANGED <<storage, user, token, isLoading, authScreen,
                   stepVars, mainVars,
                   signupScreen, forgotScreen>>

TypeOtp ==
    /\ ScreenReady
    /\ authScreen = "OTP"
    /\ \E in \in TypedOtp :
            otpScreen' = [otpScreen EXCEPT
                !.otp = handleOtpChange(@, in[1], in[2])]
    /\ UNCHANGED <<authVars, stepVars, mainVars,
                   signupScreen, forgotScreen>>

OtpCountdownTimer ==
    /\ ~MicrotaskPending
    /\ authScreen = "OTP"
    /\ otpScreen.countdown > 0 /\ ~otpScreen.canResend
    /\ otpScreen' = CountdownEffect(otpScreen)
    /\ UNCHANGED <<authVars, stepVars, mainVars,
                   signupScreen, forgotScreen>>

\* handleVerify / handleResend after the await, with the auth context's
\* verifyOTP / resendOTP inside
ContinueOtp(i) ==
    /\ inflight[i].stage = "intercepted"
    /\ inflight[i].kind \in {"verifyOTP", "resendOTP"}
    /\ inflight[i].status = Unauthorized => ~MicrotaskPending
    /\ LET r == inflight[i]
           c == Continuation(r)
           ok == r.status = OK
           s == otpScreen
           after ==
             IF r.kind = "verifyOTP"
             THEN [(IF ok THEN s ELSE [s EXCEPT !.otp = EmptyOtp])
                        EXCEPT !.loading = FALSE]
             ELSE [(IF ok THEN [s EXCEPT !.canResend = FALSE,
                                         !.countdown = ResendSeconds,
                                         !.otp = EmptyOtp]
                    ELSE s) EXCEPT !.resendLoading = FALSE]
       IN  /\ user' = c.user
           /\ token' = c.token
           /\ storage' = c.storage
           /\ errorAlert' = IF ok /\ r.kind = "resendOTP" THEN "Success"
                            ELSE c.err
           /\ inflight' = Remount(RemoveAt(inflight, i), isAuthenticated,
                                  IsAuth(c.user, c.token))
           /\ authScreen' = IF IsAuth(c.user, c.token) THEN "Login"
                            ELSE authScreen
           /\ otpScreen' = IF r.alive /\ ~IsAuth(c.user, c.token) THEN after
                           ELSE otpScreen
    /\ UNCHANGED <<isLoading, stepVars, mainVars, signupScreen, forgotScreen>>

\* an OTP screen has just been opened: OTPScreen after a signup, or
\* ForgotPasswordScreen from the login screen
OtpInit ==
    /\ StepScreenInit(FALSE)
    /\ \E screen \in {"OTP", "ForgotPassword"} : LoggedOut(screen)
    /\ ScreensInit

OtpNext ==
    \/ PressForgotButton
    \/ TypeForgot
    \/ CountdownTimer
    \/ ForgotBack
    \/ \E i \in 1..Len(inflight) : ContinueForgot(i)
    \/ DismissResetDone
    \/ PressOtpButton
    \/ TypeOtp
    \/ OtpCountdownTimer
    \/ GoBack
    \/ \E i \in 1..Len(inflight) : ContinueOtp(i)
    \/ \E i \in 1..Len(inflight) : \E status \in Statuses :
            \E payload \in Payloads(inflight[i].kind, status) :
                Respond(i, status, payload)
    \/ DismissError

OtpSpec == OtpInit /\ [][OtpNext]_vars

(***************************************************************************)
(* Both OTP screens with the resend countdown second by second             *)
(***************************************************************************)
\* the countdown effect that allows a resend one second early
CountdownSecondEarly(s) ==
    [s EXCEPT !.countdown = @ - 1, !.canResend = (s.countdown - 1 <= 1)]

\* the countdown effect: its timer fires, setCountdown(countdown - 1), and
\* the effect of the next render sets canResend when the countdown is at 0
CountdownSecond(s) ==
    [s EXCEPT !.countdown = @ - 1, !.canResend = (s.countdown - 1 = 0)]

\* the 1 s timer of the screen on top fires; ForgotPasswordScreen sets it
\* only in its OTP step
SecondTimer ==
    /\ ~MicrotaskPending
    /\ \/ /\ authScreen = "OTP"
          /\ otpScreen.countdown > 0 /\ ~otpScreen.canResend
          /\ otpScreen' = CountdownSecond(otpScreen)
          /\ UNCHANGED forgotScreen
       \/ /\ authScreen = "ForgotPassword"
          /\ forgotScreen.step = "otp"
          /\ forgotScreen.countdown > 0 /\ ~forgotScreen.canResend
          /\ forgotScreen' = CountdownSecond(forgotScreen)
          /\ UNCHANGED otpScreen
    /\ UNCHANGED <<authVars, stepVars, mainVars, signupScreen>>

\* an OTP screen right after the code was sent, its fields empty or filled
CountdownInit ==
    /\ StepScreenInit(FALSE)
    /\ signupScreen = SignupScreenMount
    /\ MainScreensInit
    /\ \E screen \in {"OTP", "ForgotPassword"} : LoggedOut(screen)
    /\ \E otp \in {EmptyOtp, [k \in 1..OTP_LENGTH |-> <<"1">>]} :
        /\ otpScreen = [OtpScreenMount EXCEPT !.otp = otp]
        /\ forgotScreen = [ForgotScreenMount EXCEPT
                                !.step = "otp", !.otp = otp,
                                !.email = <<"a", "@", "a", ".", "a">>]

CountdownNext ==
    \/ SecondTimer
    \/ PressForgotButton
    \/ ForgotBack
    \/ \E i \in 1..Len(inflight) : ContinueForgot(i)
    \/ PressOtpButton
    \/ GoBack
    \/ \E i \in 1..Len(inflight) : ContinueOtp(i)
    \/ \E i \in 1..Len(inflight) : \E status \in Statuses :
            \E payload \in Payloads(inflight[i].kind, status) :
                Respond(i, status, payload)
    \/ DismissError

\* a timer that is set fires, whatever else happens meanwhile, and the code
\* after an await runs once the awaited request has settled
CountdownSpec ==
    /\ CountdownInit /\ [][CountdownNext]_vars
    /\ SF_vars(SecondTimer)
    /\ WF_vars(\E i \in 1..Len(inflight) : ContinueOtp(i))
    /\ WF_vars(\E i \in 1..Len(inflight) : ContinueForgot(i))

(***************************************************************************)
(* HomeScreen, AppointmentsScreen and ProgressScreen: loading their data   *)
(***************************************************************************)
\* the requests one load of the screen sends: fetchDashboardData,
\* loadAppointments, or fetchAllData's Promise.all of its three fetches;
\* by says who called it, the mount effect or onRefresh
LoadRequests(screen, by) ==
    LET kinds == CASE screen = "Home" -> <<"dashboard">>
                   [] screen = "Appointments" -> <<"appointments">>
                   [] OTHER -> <<"weeklySteps", "exerciseHistory",
                                 "dietHistory">>
    IN  [j \in 1..Len(kinds) |-> NewRequest(kinds[j], <<by>>)]

\* the user opens the screen, once the requests of the screen they left
\* have settled: it mounts and its effects load the data.
\* AppointmentsScreen has two, useFocusEffect and useEffect.
OpenScreen(screen) ==
    LET once == LoadRequests(screen, "mount")
        reqs == IF screen = "Appointments" THEN once \o once ELSE once
    IN  /\ ScreenReady
        /\ fetchScreen.screen = "none"
        /\ inflight = <<>>
        /\ fetchScreen' = FetchScreenMount(screen)
        /\ inflight' = inflight \o reqs
        /\ UNCHANGED <<storage, user, token, isLoading, authScreen,
                       errorAlert, stepVars, signupScreen, forgotScreen,
                       otpScreen, planScreen, requested>>

\* the user leaves the screen: it unmounts
CloseScreen ==
    /\ ScreenReady
    /\ fetchScreen.screen # "none"
    /\ fetchScreen' = FetchScreenMount("none")
    /\ inflight' = MarkDead(inflight, FetchKinds)
    /\ UNCHANGED <<storage, user, token, isLoading, authScreen, errorAlert,
                   stepVars, signupScreen, forgotScreen, otpScreen,
                   planScreen, requested>>

\* pull to refresh; while loading the screen renders only a spinner
onRefresh ==
    LET reqs == LoadRequests(fetchScreen.screen, "refresh")
    IN  /\ ScreenReady
        /\ fetchScreen.screen # "none"
        /\ ~fetchScreen.loading /\ ~fetchScreen.refreshing
        /\ fetchScreen' =
              [fetchScreen EXCEPT !.refreshing = TRUE,
                     !.loading = (fetchScreen.screen = "Appointments")]
        /\ inflight' = inflight \o reqs
        /\ UNCHANGED <<storage, user, token, isLoading, authScreen,
                       errorAlert, stepVars, signupScreen, forgotScreen,
                       otpScreen, planScreen, requested>>

\* a catch block that shows 'Error' whatever was fetched
CatchAlertAlways(kind) == "Error"

\* the catch block of the fetch: the title of the alert it shows, "none"
\* where it only logs the error
CatchAlert(kind) == IF kind = "dashboard" THEN "Error" ELSE "none"

\* what the screen shows of request r's data once r has settled; has: the
\* response body has the field the screen reads
Fetched(r, shown) ==
    LET ok == r.status = OK
        has == r.respUser # Null
    IN  CASE r.kind = "dashboard" -> IF ok THEN "loaded" ELSE shown
          [] r.kind \in {"appointments", "weeklySteps"} ->
                IF ok /\ has THEN "loaded" ELSE "default"
          [] OTHER -> IF ~ok THEN "default"
                      ELSE IF has THEN "loaded" ELSE shown

\* the code after the awaited GET: try / catch / finally of the fetch, and
\* of fetchAllData or onRefresh around it. A screen that was unmounted keeps
\* nothing of it but the alert.
ContinueFetch(i) ==
    /\ inflight[i].stage = "intercepted"
    /\ inflight[i].kind \in FetchKinds
    /\ inflight[i].status = Unauthorized => ~MicrotaskPending
    /\ LET r == inflight[i]
           rest == RemoveAt(inflight, i)
           \* Promise.all has settled: no fetch of this screen is left
           last == \A j \in 1..Len(rest) :
                        rest[j].kind \in FetchKinds => ~rest[j].alive
           s == fetchScreen
           done == s.screen # "Progress" \/ last
       IN  /\ inflight' = rest
           /\ errorAlert' = IF r.status # OK /\ CatchAlert(r.kind) # "none"
                            THEN CatchAlert(r.kind) ELSE errorAlert
           /\ fetchScreen' =
                IF ~r.alive THEN s
                ELSE [s EXCEPT
                        !.data[r.kind] = Fetched(r, @),
                        !.failed = @ \/ r.status # OK,
                        !.loading = IF done THEN FALSE ELSE @,
                        !.refreshing =
                            IF s.screen = "Appointments"
                            THEN (IF r.body = <<"refresh">> THEN FALSE ELSE @)
                            ELSE IF done THEN FALSE ELSE @]
    /\ UNCHANGED <<storage, user, token, isLoading, authScreen, stepVars,
                   signupScreen, forgotScreen, otpScreen, planScreen,
                   requested>>

FetchInit == StepInit

FetchNext ==
    \/ \E screen \in {"Home", "Appointments", "Progress"} : OpenScreen(screen)
    \/ CloseScreen
    \/ onRefresh
    \/ \E i \in 1..Len(inflight) : \E status \in Statuses :
            \E payload \in Payloads(inflight[i].kind, status) :
                Respond(i, status, payload)
    \/ \E i \in 1..Len(inflight) : ContinueFetch(i)
    \/ DismissError

FetchSpec == FetchInit /\ [][FetchNext]_vars

(***************************************************************************)
(* The services: the URL a call requests. A URL or path is a sequence of   *)
(* tokens, "/" or the text between two slashes.                            *)
(***************************************************************************)
\* getApiBaseUrl(): production, web, device
BaseUrls == {"https://your-production-api.com", "http://localhost:5000",
             "http://10.120.140.222:5000"}

Ids == {"1", "2"}   \* user, message, post, reply and analysis ids

\* the methods of AuthService, MessageService, CommunityService, XRayService
ServiceCalls ==
    {[name |-> n, id |-> "-"] :
        n \in {"login", "signup", "verifyOTP", "resendOTP", "getCurrentUser",
               "updateProfile", "changePassword", "deleteProfilePicture",
               "logout", "getConversations", "sendMessage", "getPosts",
               "createPost", "analyzeXRay", "getAnalyses"}}
    \cup {[name |-> n, id |-> id] :
            n \in {"getConversation", "markAsRead", "getPost", "getReplies",
                   "createReply", "likePost", "likeReply", "deletePost",
                   "deleteReply", "getAnalysisById"},
            id \in Ids}

\* the path a method hands to apiClient
ServicePath(c) ==
    LET n == c.name
        Path(segs) == [j \in 1..2 * Len(segs) |->
                            IF j % 2 = 1 THEN "/" ELSE segs[j \div 2]]
    IN  CASE n = "login" -> Path(<<"auth", "login">>)
          [] n = "signup" -> Path(<<"auth", "signup">>)
          [] n = "verifyOTP" -> Path(<<"auth", "verify-otp">>)
          [] n = "resendOTP" -> Path(<<"auth", "resend-otp">>)
          [] n = "getCurrentUser" -> Path(<<"auth", "user">>)
          [] n = "updateProfile" -> Path(<<"auth", "update-profile">>)
          [] n = "changePassword" ->
                Path(<<"api", "auth", "change-password">>)
          [] n = "deleteProfilePicture" ->
                Path(<<"api", "auth", "delete-profile-picture">>)
          [] n = "logout" -> Path(<<"api", "auth", "logout">>)
          [] n = "getConversations" ->
                Path(<<"api", "messages", "conversations">>)
          [] n = "getConversation" ->
                Path(<<"api", "messages", "conversation", c.id>>)
          [] n = "sendMessage" -> Path(<<"api", "messages", "send">>)
          [] n = "markAsRead" -> Path(<<"api", "messages", c.id, "read">>)
          [] n \in {"getPosts", "createPost"} ->
                Path(<<"api", "community", "posts">>)
          [] n \in {"getPost", "deletePost"} ->
                Path(<<"api", "community", "posts", c.id>>)
          [] n \in {"getReplies", "createReply"} ->
                Path(<<"api", "community", "posts", c.id, "replies">>)
          [] n = "likePost" ->
                Path(<<"api", "community", "posts", c.id, "like">>)
          [] n = "likeReply" ->
                Path(<<"api", "community", "replies", c.id, "like">>)
          [] n = "deleteReply" ->
                Path(<<"api", "community", "replies", c.id>>)
          [] n = "analyzeXRay" -> Path(<<"api", "ai", "analyze-xray">>)
          [] n = "getAnalyses" -> Path(<<"api", "ai", "analyses">>)
          [] OTHER -> Path(<<"api", "ai", "analyses", c.id>>)

\* axios combineURLs: baseURL.replace(/\/?\/$/, '') + '/' +
\* relativeURL.replace(/^\/+/, ''), or baseURL for an empty relativeURL
combineURLs(baseURL, relativeURL) ==
    LET RECURSIVE DropLeading(_)
        DropLeading(str) ==
            IF str # <<>> /\ Head(str) = "/"
            THEN DropLeading(Tail(str)) ELSE str
        n == Len(baseURL)
        cut == IF n >= 2 /\ baseURL[n] = "/" /\ baseURL[n - 1] = "/" THEN 2
               ELSE IF n >= 1 /\ baseURL[n] = "/" THEN 1 ELSE 0
    IN  IF relativeURL = <<>> THEN baseURL
        ELSE SubSeq(baseURL, 1, n - cut) \o <<"/">> \o DropLeading(relativeURL)

\* a screen calls the service method: apiClient requests baseURL + path,
\* baseURL being API_BASE_URL + '/api'
CallService(c) ==
    /\ requested # NoItem
    /\ requested' = [requested EXCEPT !.call = c,
            !.url = combineURLs(<<requested.base, "/", "api">>,
                                ServicePath(c))]
    /\ UNCHANGED <<stepVars, authVars, signupScreen, forgotScreen, otpScreen,
                   fetchScreen, planScreen>>

\* the app has started on one of the platforms, no service called yet
UrlInit ==
    /\ StepScreenInit(FALSE)
    /\ LoggedIn
    /\ signupScreen = SignupScreenMount
    /\ forgotScreen = ForgotScreenMount
    /\ otpScreen = OtpScreenMount
    /\ fetchScreen = FetchScreenMount("none")
    /\ planScreen = NoItem
    /\ \E base \in BaseUrls :
            requested = [base |-> base, call |-> NoItem, url |-> <<>>]

UrlNext == \E c \in ServiceCalls : CallService(c)

UrlSpec == UrlInit /\ [][UrlNext]_vars

(***************************************************************************)
(* ExercisePlansScreen and DietPlansScreen                                 *)
(***************************************************************************)
Levels == {"beginning", "moderate"}     \* SeverityLevel, two of the three
Items == {"e1", "e2"}       \* ids of the exercises / meals of a plan
\* today's log as the server returns it: none, or the plan with the items
\* completed and the glasses of water (0 for exercises)
TodayLogs(screen) ==
    {NoItem} \cup
    {<<[plan |-> l, completed |-> c, water |-> w]>> :
        l \in Levels, c \in SUBSET Items,
        w \in IF screen = "Diet" THEN {0, 3} ELSE {0}}

\* useState initial values; confirm: the 'Change Plan?' dialog on screen,
\* holding the level its Change button would select
PlanScreenMount(screen) ==
    [screen |-> screen, selectedPlan |-> Null, plans |-> Null,
     completed |-> {}, water |-> 0, loading |-> TRUE, saving |-> FALSE,
     refreshing |-> FALSE, confirm |-> NoItem]

\* handleSelectPlan(level)
handleSelectPlan(s, level) ==
    IF s.selectedPlan # Null /\ s.selectedPlan # level /\ s.completed # {}
    THEN [s EXCEPT !.confirm = <<level>>]
    ELSE [s EXCEPT !.selectedPlan = level, !.completed = {}, !.water = 0]

\* the catch block of a save that leaves the items as they are
saveFailedKeeps(s, before) == s

\* the catch block of toggleExercise / saveProgress: toggleExercise sets
\* back the completedExercises of the render that handled the toggle
saveFailed(s, before) ==
    IF s.screen = "Exercise" THEN [s EXCEPT !.completed = before] ELSE s

\* the user opens the screen: it mounts and useFocusEffect calls loadData,
\* whose three GETs under Promise.all are one request here
OpenPlanScreen(screen) ==
    /\ CanSend
    /\ planScreen = NoItem
    /\ planScreen' = PlanScreenMount(screen)
    /\ inflight' = Append(inflight, NewRequest("planData", <<"focus">>))
    /\ UNCHANGED <<storage, user, token, isLoading, authScreen, errorAlert,
                   stepVars, signupScreen, forgotScreen, otpScreen,
                   fetchScreen, requested>>

\* the screen comes back into focus, or pull to refresh: loadData again;
\* while loading the screen renders only a spinner
PlanReload(by) ==
    /\ CanSend
    /\ planScreen # NoItem
    /\ ~planScreen.loading /\ ~planScreen.refreshing
    /\ planScreen' = [planScreen EXCEPT !.loading = TRUE,
                                        !.refreshing = (by = "refresh")]
    /\ inflight' = Append(inflight, NewRequest("planData", <<by>>))
    /\ UNCHANGED <<storage, user, token, isLoading, authScreen, errorAlert,
                   stepVars, signupScreen, forgotScreen, otpScreen,
                   fetchScreen, requested>>

\* the user acts on the loaded screen
PlanScreenReady ==
    /\ ScreenReady
    /\ planScreen # NoItem
    /\ ~planScreen.loading
    /\ planScreen.confirm = NoItem

\* 'Change Plan' in the header of the checklist: setSelectedPlan(null)
ChangePlan ==
    /\ PlanScreenReady
    /\ planScreen.selectedPlan # Null
    /\ planScreen' = [planScreen EXCEPT !.selectedPlan = Null]
    /\ UNCHANGED <<authVars, stepVars, signupScreen, forgotScreen, otpScreen,
                   fetchScreen, requested>>

\* a card of the plan list, which is rendered while no plan is selected
SelectPlan(level) ==
    /\ PlanScreenReady
    /\ planScreen.selectedPlan = Null /\ planScreen.plans # Null
    /\ planScreen' = handleSelectPlan(planScreen, level)
    /\ UNCHANGED <<authVars, stepVars, signupScreen, forgotScreen, otpScreen,
                   fetchScreen, requested>>

\* toggleExercise / toggleMeal: an item of the checklist is pressed
ToggleItem(id) ==
    LET s == planScreen
        newCompleted == IF id \in s.completed THEN s.completed \ {id}
                        ELSE s.completed \cup {id}
        log == [plan |-> s.selectedPlan, completed |-> newCompleted,
                water |-> s.water, before |-> s.completed]
    IN  /\ PlanScreenReady
        /\ Len(inflight) < MaxInFlight
        /\ s.selectedPlan # Null /\ s.plans # Null
        /\ planScreen' = [s EXCEPT !.completed = newCompleted,
                                   !.saving = TRUE]
        /\ inflight' = Append(inflight, NewRequest("planLog", <<log>>))
        /\ UNCHANGED <<storage, user, token, isLoading, authScreen,
                       errorAlert, stepVars, signupScreen, forgotScreen,
                       otpScreen, fetchScreen, requested>>

MinWater == 0
MaxWater == 12
\* the two water buttons: adjustWater(-1) and adjustWater(1)
WaterDeltas == {-1, 1}

\* Math.max(0, water): the upper limit left out
ClampFloorOnly(water) ==
    IF water < MinWater THEN MinWater ELSE water

\* Math.max(0, Math.min(12, water))
Clamp(water) ==
    LET capped == IF water < MaxWater THEN water ELSE MaxWater
    IN  IF capped > MinWater THEN capped ELSE MinWater

\* adjustWater(delta) of the diet screen, with the saveProgress it calls up
\* to its await; saveProgress returns at once without a plan
AdjustWater(delta) ==
    LET s == planScreen
        newWater == Clamp(s.water + delta)
        log == [plan |-> s.selectedPlan, completed |-> s.completed,
                water |-> newWater, before |-> s.completed]
    IN  /\ PlanScreenReady
        /\ Len(inflight) < MaxInFlight
        /\ s.screen = "Diet"
        /\ s.selectedPlan # Null
        /\ IF s.plans = Null
           THEN /\ planScreen' = [s EXCEPT !.water = newWater]
                /\ UNCHANGED inflight
           ELSE /\ planScreen' = [s EXCEPT !.water = newWater,
                                           !.saving = TRUE]
                /\ inflight' = Append(inflight, NewRequest("planLog", <<log>>))
        /\ UNCHANGED <<storage, user, token, isLoading, authScreen,
                       errorAlert, stepVars, signupScreen, forgotScreen,
                       otpScreen, fetchScreen, requested>>

\* the code after the awaited request: loadData, or toggleExercise /
\* saveProgress, with their catch and finally blocks
ContinuePlan(i, log) ==
    /\ inflight[i].stage = "intercepted"
    /\ inflight[i].kind \in {"planData", "planLog"}
    /\ inflight[i].status = Unauthorized => ~MicrotaskPending
    /\ log \in TodayLogs(planScreen.screen)
    /\ inflight[i].kind = "planLog" \/ inflight[i].status # OK => log = NoItem
    /\ LET r == inflight[i]
           s == planScreen
           ok == r.status = OK
           loaded == IF log = NoItem THEN [s EXCEPT !.plans = "loaded"]
                     ELSE [s EXCEPT !.plans = "loaded",
                                    !.selectedPlan = log[1].plan,
                                    !.completed = log[1].completed,
                                    !.water = IF s.screen = "Diet"
                                              THEN log[1].water ELSE @]
       IN  /\ planScreen' =
                IF r.kind = "planData"
                THEN [(IF ok THEN loaded ELSE s) EXCEPT
                            !.loading = FALSE,
                            !.refreshing = IF r.body = <<"refresh">>
                                           THEN FALSE ELSE @]
                ELSE [(IF ok THEN s ELSE saveFailed(s, r.body[1].before))
                        EXCEPT !.saving = FALSE]
           /\ errorAlert' = IF ok THEN errorAlert ELSE "Error"
           /\ inflight' = RemoveAt(inflight, i)
    /\ UNCHANGED <<storage, user, token, isLoading, authScreen, stepVars,
                   signupScreen, forgotScreen, otpScreen, fetchScreen,
                   requested>>

PlanInit == StepInit

PlanNext ==
    \/ \E screen \in {"Exercise", "Diet"} : OpenPlanScreen(screen)
    \/ \E by \in {"focus", "refresh"} : PlanReload(by)
    \/ ChangePlan
    \/ \E level \in Levels : SelectPlan(level)
    \/ \E id \in Items : ToggleItem(id)
    \/ \E i \in 1..Len(inflight) : \E status \in Statuses :
            \E payload \in Payloads(inflight[i].kind, status) :
                Respond(i, status, payload)
    \/ \E i \in 1..Len(inflight) :
            \E log \in TodayLogs("Diet") : ContinuePlan(i, log)
    \/ DismissError

PlanSpec == PlanInit /\ [][PlanNext]_vars

\* the diet screen with its water buttons, the checklist left alone
WaterNext ==
    \/ OpenPlanScreen("Diet")
    \/ \E level \in Levels : SelectPlan(level)
    \/ \E delta \in WaterDeltas : AdjustWater(delta)
    \/ \E i \in 1..Len(inflight) : \E status \in Statuses :
            \E payload \in Payloads(inflight[i].kind, status) :
                Respond(i, status, payload)
    \/ \E i \in 1..Len(inflight) :
            \E log \in TodayLogs("Diet") : ContinuePlan(i, log)
    \/ DismissError

WaterSpec == PlanInit /\ [][WaterNext]_vars

(***************************************************************************)
(* Step counter: properties                                                *)
(***************************************************************************)
\* a step was counted in this transition
Counted == sessionSteps' > sessionSteps

\* the listener received a reading below -stepThreshold while 'up'
\* (in 'up' lastZ is never below -stepThreshold, so lastZ changes)
FallingEdgeInUp ==
    subscribed /\ stepState = "up" /\ lastZ' < -StepThreshold /\ lastZ' # lastZ

\* C1: a step is counted only on a reading with acceleration below -0.08
\* that arrives in state 'up'; 'up' is entered only from 'down' by a reading
\* with acceleration above +0.08; after every falling-edge reading in 'up'
\* the detector is in 'down', whether or not the step was counted.
C1_StepOnFallingEdge ==
    [][ /\ Counted => (stepState = "up" /\ lastZ' < -StepThreshold)
        /\ (stepState = "down" /\ stepState' = "up") => lastZ' > StepThreshold
        /\ FallingEdgeInUp => stepState' = "down" ]_vars

\* two steps counted, the detector back in 'down' after the falling edge
C1_Witness ==
    isCounting /\ sessionSteps = 2 /\ stepState = "down" /\ lastZ < -StepThreshold
        /\ lastStepTime = now

\* C2: a step is counted only more than 250 ms after the previous counted
\* step and after startCounting (lastStepTime holds the later of the two);
\* a falling edge 250 ms or less after it changes neither the count nor
\* lastStepTime.
C2_RefractoryPeriod ==
    [][ /\ Counted => /\ now - lastStepTime > MinStepInterval
                      /\ now - startTime > MinStepInterval
                      /\ lastStepTime' = now
        /\ (~isCounting /\ isCounting') => lastStepTime' = startTime'
        /\ (isCounting /\ isCounting' /\ ~Counted) => lastStepTime' = lastStepTime
        /\ (FallingEdgeInUp /\ now - lastStepTime <= MinStepInterval) =>
                (sessionSteps' = sessionSteps /\ lastStepTime' = lastStepTime) ]_vars

\* a falling edge exactly 250 ms after a counted step was dropped
C2_Witness ==
    isCounting /\ sessionSteps = 1 /\ stepState = "down" /\ lastZ < -StepThreshold
        /\ now - lastStepTime = MinStepInterval

\* C3: while a session is active sessionSteps is a natural number that no
\* transition lowers and none raises by more than 1, and it is 0 when
\* startCounting begins the session.
C3_MonotonicCount ==
    /\ [](sessionSteps \in Nat)
    /\ [][ /\ (isCounting /\ isCounting') =>
                    sessionSteps' \in {sessionSteps, sessionSteps + 1}
           /\ (~isCounting /\ isCounting') => sessionSteps' = 0 ]_vars

\* an active session with three counted steps
C3_Witness == isCounting /\ subscribed /\ sessionSteps = 3

\* n is num/den rounded to the nearest integer
Nearest(n, num, den) == 2 * (n * den - num) <= den /\ 2 * (num - n * den) <= den

\* C4: the distance and calories shown are functions of the step count
\* alone (steps x 0.762 m in km to two decimals, steps x 0.04 kcal to a
\* whole number); the record handed to saveSession and the request body
\* carry the step count at stop time, that distance to two decimals and
\* steps x 0.04 kcal.
C4_Metrics ==
    /\ Nearest(calculateDistance, sessionSteps * StepLengthMm, 10000)
    /\ Nearest(calculateCalories, sessionSteps * CentiKcalPerStep, 100)
    /\ alertInfo # NoItem =>
            /\ alertInfo[1].steps = sessionSteps
            /\ alertInfo[1].distance = calculateDistance
            /\ alertInfo[1].calories = calculateCalories
    /\ session # NoItem =>
            /\ session[1].steps = sessionSteps
            /\ Nearest(session[1].distance, sessionSteps * StepLengthMm, 10000)
            /\ session[1].calories = sessionSteps * CentiKcalPerStep
    /\ \A i \in 1..Len(inflight) :
            (inflight[i].kind = "saveSteps" /\ inflight[i].stage = "sent") =>
                /\ inflight[i].body[1].steps = sessionSteps
                /\ inflight[i].body[1].distance = session[1].distance
                /\ inflight[i].body[1].calories = session[1].calories

\* a 13-step session (9.906 m, 0.52 kcal) is being saved
C4_Witness ==
    /\ session # NoItem /\ isSaving
    /\ session[1].steps = 13 /\ session[1].distance = 1 /\ session[1].calories = 52
    /\ alertInfo[1].calories = 1

(***************************************************************************)
(* API client and auth context: properties                                 *)
(***************************************************************************)
\* this transition is the response interceptor handling request i
Intercepts(i) ==
    /\ i <= Len(inflight) /\ Len(inflight') = Len(inflight)
    /\ inflight[i].stage = "sent" /\ inflight'[i].stage = "intercepted"

\* the requests without the flag that says whether their screen is mounted
Strip(seq) == [j \in 1..Len(seq) |-> [seq[j] EXCEPT !.alive = TRUE]]

\* this transition hands the settled request i back to its caller: the
\* request leaves the list, or the caller's next request takes its place
Returns(i) ==
    /\ i <= Len(inflight) /\ inflight[i].stage = "intercepted"
    /\ ~isLoading'
    /\ \/ Strip(inflight') = RemoveAt(Strip(inflight), i)
       \/ /\ Len(inflight') = Len(inflight)
          /\ inflight'[i].stage = "sent"
          /\ \A j \in 1..Len(inflight) :
                j # i => Strip(inflight')[j] = Strip(inflight)[j]

\* this transition sends the request found at position j afterwards
Sends(j) ==
    /\ j <= Len(inflight') /\ inflight'[j].stage = "sent"
    /\ \/ Len(inflight') = Len(inflight) + 1 /\ j = Len(inflight')
       \/ /\ Len(inflight') = Len(inflight)
          /\ inflight[j].stage = "intercepted"

Slots == 1..(MaxInFlight + 1)

\* C5: when the response interceptor sees status 401 the token and the user
\* are gone from storage before the caller gets the error; with any other
\* status the interceptor leaves storage as it was.
C5_ClearOn401 ==
    [][ \A i \in Slots : Intercepts(i) =>
            IF inflight'[i].status = Unauthorized
            THEN storage'.token = None /\ storage'.user = NoItem
            ELSE storage' = storage ]_vars

\* a 401 has been intercepted for a logged-in user and not yet handed back
C5_Witness ==
    \E i \in 1..Len(inflight) :
        /\ inflight[i].stage = "intercepted" /\ inflight[i].status = Unauthorized
        /\ inflight[i].kind = "updateProfile"
        /\ storage = EmptyStorage /\ isAuthenticated

\* C6: when a call that got a 401 is handed back to its caller while the
\* user is authenticated, isAuthenticated becomes false.
C6_AutoLogout ==
    [][ \A i \in Slots :
            (Returns(i) /\ inflight[i].status = Unauthorized /\ isAuthenticated)
                => ~isAuthenticated' ]_vars

\* C7: when AuthProvider has loaded, a stored token and user record make the
\* context hold exactly that token and user and be authenticated; otherwise
\* user and token are null.
C7_AutoLogin ==
    [][ (isLoading /\ ~isLoading') =>
            IF storage.token # None /\ storage.user # NoItem
            THEN \/ /\ token' = storage.token
                    /\ user' = Parse(storage.user)
                    /\ isAuthenticated'
                 \/ /\ Parse(storage.user) = Null
                    /\ user' = Null /\ token' = Null
            ELSE user' = Null /\ token' = Null ]_vars

\* login or verifyOTP succeeds in this transition
LoginSucceeds ==
    \E i \in Slots :
        /\ Returns(i) /\ inflight[i].kind \in {"login", "verifyOTP"}
        /\ inflight[i].status = OK
        /\ storage'.token # None /\ storage'.user # NoItem

\* C8: when logout() completes user and token are null and both keys are
\* absent from storage, whatever the logout call returned; from then on the
\* keys stay absent until a login or OTP verification succeeds.
C8_LogoutClears ==
    [][ /\ \A i \in Slots : (Returns(i) /\ inflight[i].kind = "logout") =>
                (user' = Null /\ token' = Null /\ storage' = EmptyStorage)
        /\ (token = Null /\ storage = EmptyStorage /\ storage' # EmptyStorage)
                => LoginSucceeds ]_vars

\* C9: a request leaves with Authorization: Bearer <token> for the token in
\* storage at that moment, and with no Authorization header when storage
\* holds no token.
C9_BearerHeader ==
    [][ \A j \in Slots : Sends(j) =>
            IF storage'.token \in Tokens
            THEN inflight'[j].auth = <<"Bearer", storage'.token>>
            ELSE inflight'[j].auth = NoItem ]_vars

\* a request is out with the stored token while another, sent before the
\* login, is out without a header
C9_Witness ==
    /\ Len(inflight) = 2 /\ storage.token = "t2"
    /\ inflight[1].stage = "sent" /\ inflight[1].auth = NoItem
    /\ inflight[2].stage = "sent" /\ inflight[2].auth = <<"Bearer", "t2">>

\* login / verifyOTP succeed: user and token in memory and in storage
C10_Success ==
    \A i \in Slots :
        (Returns(i) /\ inflight[i].kind \in {"login", "verifyOTP"}
            /\ inflight[i].status = OK) =>
            /\ user' = inflight[i].respUser
            /\ token' = inflight[i].respToken
            /\ storage' = [token |-> inflight[i].respToken,
                           user |-> <<"json", inflight[i].respUser>>]

\* C10 as stated: a failed login / verifyOTP changes neither user, token nor
\* storage and the caller gets the error; signup and resendOTP never
\* change user, token or storage.
C10_FrameAsStated ==
    [][ /\ C10_Success
        /\ \A i \in Slots :
            /\ (Intercepts(i) /\ inflight[i].kind \in AuthScreenKinds
                    /\ ~(inflight[i].kind \in {"login", "verifyOTP"}
                          /\ inflight'[i].status = OK)) =>
                    (user' = user /\ token' = token /\ storage' = storage)
            /\ (Returns(i) /\ inflight[i].kind \in {"login", "verifyOTP"}
                    /\ inflight[i].status # OK) =>
                    /\ user' = user /\ token' = token /\ storage' = storage
                    /\ errorAlert' = ErrorTitle(inflight[i].kind)
            /\ (Returns(i) /\ inflight[i].kind \in {"signup", "resendOTP"}) =>
                    (user' = user /\ token' = token /\ storage' = storage)
      ]_vars

\* C10 amended: as stated, except that a 401 response to any of the four
\* calls removes the token and the user from storage (and changes nothing
\* else) before the caller gets the error.
C10_FrameExcept401 ==
    [][ /\ C10_Success
        /\ \A i \in Slots :
            /\ (Intercepts(i) /\ inflight[i].kind \in AuthScreenKinds
                    /\ ~(inflight[i].kind \in {"login", "verifyOTP"}
                          /\ inflight'[i].status = OK)) =>
                    /\ user' = user /\ token' = token
                    /\ storage' = IF inflight'[i].status = Unauthorized
                                  THEN EmptyStorage ELSE storage
            /\ (Returns(i) /\ inflight[i].kind \in {"login", "verifyOTP"}
                    /\ inflight[i].status # OK) =>
                    /\ user' = user /\ token' = token /\ storage' = storage
                    /\ errorAlert' = ErrorTitle(inflight[i].kind)
            /\ (Returns(i) /\ inflight[i].kind \in {"signup", "resendOTP"}) =>
                    (user' = user /\ token' = token /\ storage' = storage)
      ]_vars

\* a login failed with 401 after an OTP verification had logged the user in:
\* the context is authenticated and storage is empty
C10_Witness ==
    /\ errorAlert = "Login Failed" /\ isAuthenticated /\ storage = EmptyStorage
    /\ inflight = <<>>

(***************************************************************************)
(* Signup form: properties                                                 *)
(***************************************************************************)
NonBlank(str) == \E k \in 1..Len(str) : str[k] \notin Whitespace
CountOf(str, c) == Cardinality({k \in 1..Len(str) : str[k] = c})

\* x@y.z: no whitespace, one '@' after a non-empty x, and after it a '.'
\* with a non-empty y before it and a non-empty z behind it
HasFormXatYdotZ(str) ==
    /\ ~HasWhitespace(str)
    /\ CountOf(str, "@") = 1
    /\ \E at \in 2..Len(str) : \E dot \in (at + 2)..(Len(str) - 1) :
            str[at] = "@" /\ str[dot] = "."

\* validity of the form as the claim words it
StatedValid(f) ==
    /\ NonBlank(f.firstName)
    /\ NonBlank(f.lastName)
    /\ NonBlank(f.email)
    /\ HasFormXatYdotZ(f.email)
    /\ Len(f.password) >= 8
    /\ \E k \in 1..Len(f.password) : f.password[k] \in LowerCase
    /\ \E k \in 1..Len(f.password) : f.password[k] \in UpperCase
    /\ \E k \in 1..Len(f.password) : f.password[k] \in Digits
    /\ \E k \in 1..Len(f.password) :
            f.password[k] \notin LowerCase \cup UpperCase \cup Digits
    /\ ~HasWhitespace(f.password)
    /\ f.confirmPassword = f.password

SendsSignup ==
    /\ Len(inflight') = Len(inflight) + 1
    /\ inflight'[Len(inflight')].kind = "signup"
    /\ inflight'[Len(inflight')].stage = "sent"

\* C11: validateForm passes exactly when the names are non-blank, the e-mail
\* is non-blank and of the form x@y.z without whitespace, the password has
\* at least 8 characters with a lowercase letter, an uppercase letter, a
\* digit and a non-alphanumeric character and no whitespace, and the
\* confirmation equals the password; a signup request is sent only by
\* handleSignup with a form that passes.
C11_SignupValidation ==
    /\ [](validateForm(signupScreen).ok <=> StatedValid(signupScreen))
    /\ [][SendsSignup => validateForm(signupScreen).ok]_vars

\* a signup request is under way for a form that passed
C11_Witness ==
    \E i \in 1..Len(inflight) :
        /\ inflight[i].kind = "signup" /\ inflight[i].stage = "sent"
        /\ inflight[i].body[1].email = <<"a", "@", "a", ".", "a">>
        /\ signupScreen.loading

(***************************************************************************)
(* OTP screens: properties                                                 *)
(***************************************************************************)
\* the request the step sends, NoItem if it sends none
Sent ==
    LET unanswered(seq) ==
            Cardinality({i \in 1..Len(seq) : seq[i].stage = "sent"})
    IN  IF unanswered(inflight') > unanswered(inflight)
        THEN <<inflight'[Len(inflight')]>> ELSE NoItem

\* C12: a verification request (OTPScreen.handleVerify, ForgotPasswordScreen.
\* handleVerifyOtp) is sent only when the OTP fields joined have exactly
\* OTP_LENGTH = 6 characters, and carries them; with fewer characters the
\* handler shows the 'Error' alert, sends nothing and changes nothing.
C12_OtpLength ==
    /\ [](/\ Len(Join(forgotScreen.otp)) < 6 =>
                handleVerifyOtp(forgotScreen) =
                    [s |-> forgotScreen, req |-> NoItem, alert |-> "Error"]
          /\ Len(Join(otpScreen.otp)) < 6 =>
                handleVerify(otpScreen) =
                    [s |-> otpScreen, req |-> NoItem, alert |-> "Error"])
    /\ [][/\ Sent # NoItem /\ Sent[1].kind = "verifyResetOtp" =>
                /\ Len(Join(forgotScreen.otp)) = 6
                /\ Sent[1].body[1].otp = Join(forgotScreen.otp)
          /\ Sent # NoItem /\ Sent[1].kind = "verifyOTP" =>
                /\ Len(Join(otpScreen.otp)) = 6
                /\ Sent[1].body[1].otp = Join(otpScreen.otp)]_vars

\* a verification of a complete code is under way on one of the screens
\* while its fields hold an incomplete code again
C12_Witness ==
    \E i \in 1..Len(inflight) :
        /\ inflight[i].stage = "sent"
        /\ \/ inflight[i].kind = "verifyOTP" /\ Len(Join(otpScreen.otp)) = 5
           \/ /\ inflight[i].kind = "verifyResetOtp"
              /\ Len(Join(forgotScreen.otp)) = 5
              /\ forgotScreen.step = "otp"
        /\ Len(inflight[i].body[1].otp) = 6

\* C18: at most one reset-password request is outstanding at any time, one
\* is sent only while loading is false, and handleResetPassword run while
\* loading is true sends nothing and changes no state.
C18_NoDoubleSubmit ==
    /\ [](/\ Cardinality({i \in 1..Len(inflight) :
                            inflight[i].kind = "resetPassword"}) <= 1
          /\ forgotScreen.loading =>
                handleResetPassword(forgotScreen) =
                    [s |-> forgotScreen, req |-> NoItem, alert |-> "none"])
    /\ [][Sent # NoItem /\ Sent[1].kind = "resetPassword" =>
                ~forgotScreen.loading /\ forgotScreen'.loading]_vars

\* a reset-password request is outstanding, the form is still valid and
\* loading is true
C18_Witness ==
    /\ forgotScreen.loading
    /\ forgotScreen.step = "newPassword"
    /\ forgotScreen.newPassword = forgotScreen.confirmPassword
    /\ \E i \in 1..Len(inflight) :
            inflight[i].kind = "resetPassword" /\ inflight[i].stage = "sent"

\* C19: the new-password step is reached only after the server accepted a
\* verify-reset-otp request, and every reset-password request carries the
\* e-mail and the OTP of the latest accepted verification.
C19_ResetCarriesVerified ==
    /\ [](forgotScreen.step = "newPassword" => forgotScreen.accepted # NoItem)
    /\ [][Sent # NoItem /\ Sent[1].kind = "resetPassword" =>
            /\ forgotScreen.accepted # NoItem
            /\ Sent[1].body[1].email = forgotScreen.accepted[1].email
            /\ Sent[1].body[1].otp = forgotScreen.accepted[1].otp]_vars

(***************************************************************************)
(* Step counter: saving a session                                          *)
(***************************************************************************)
\* C13: POST /health/steps is sent only by the user's Save or Retry in the
\* dialog on screen; after a failed save nothing is sent until then, and the
\* record Retry sends is the one that failed, which stays until Discard or
\* until a save succeeds.
C13_ManualRetryOnly ==
    /\ [](alert = "Save Failed" =>
            /\ session # NoItem
            /\ ~isSaving
            /\ \A i \in 1..Len(inflight) : inflight[i].kind # "saveSteps")
    /\ [][/\ Sent # NoItem /\ Sent[1].kind = "saveSteps" =>
                /\ alert \in {"Session Complete", "Save Failed"}
                /\ alert' = "none"
                /\ Sent[1].body[1].steps = session'[1].steps
                /\ Sent[1].body[1].startTime = session'[1].startTime
                /\ Sent[1].body[1].endTime = session'[1].endTime
                /\ alert = "Save Failed" => session' = session
          /\ session # NoItem /\ session' # session =>
                \/ alert = "Session Complete" /\ Sent # NoItem
                \/ /\ alert \in {"Save Failed", "Session Saved"}
                   /\ session' = NoItem /\ Sent = NoItem]_vars

\* a Retry is under way: the save before it was answered 401, so that the
\* retried request leaves without a token
C13_Witness ==
    /\ isSaving
    /\ session # NoItem
    /\ \E i \in 1..Len(inflight) :
            /\ inflight[i].kind = "saveSteps" /\ inflight[i].stage = "sent"
            /\ inflight[i].auth = NoItem

\* the session is back at its initial values after the step
SessionReset ==
    /\ sessionSteps' = 0 /\ startTime' = NoTime /\ duration' = 0
    /\ lastZ' = 0 /\ stepState' = "down" /\ lastStepTime' = 0

\* C20: stopCounting with no steps shows 'No Steps Recorded', resets the
\* session and neither prompts for a save nor sends one; with steps it
\* prompts and sends nothing; from the prompt a request is sent only by
\* Save, and Discard resets the session without a request.
C20_StopWithoutSteps ==
    /\ [](alert = "No Steps Recorded" =>
            /\ ~isSaving /\ session = NoItem /\ sessionSteps = 0
            /\ \A i \in 1..Len(inflight) : inflight[i].kind # "saveSteps")
    /\ [][/\ isCounting /\ ~isCounting' /\ mounted' /\ sessionSteps = 0 =>
                /\ alert' = "No Steps Recorded"
                /\ SessionReset
                /\ Sent = NoItem /\ ~isSaving'
          /\ isCounting /\ ~isCounting' /\ mounted' /\ sessionSteps > 0 =>
                /\ alert' = "Session Complete"
                /\ Sent = NoItem /\ ~isSaving'
                /\ sessionSteps' = sessionSteps
          /\ alert = "Session Complete" /\ alert' # alert =>
                \/ /\ Sent # NoItem /\ Sent[1].kind = "saveSteps"
                   /\ Sent[1].body[1].steps = sessionSteps
                   /\ isSaving'
                \/ Sent = NoItem /\ ~isSaving' /\ alert' = "none" /\ SessionReset
          ]_vars

\* a session was stopped before any step was counted
C20_Witness ==
    /\ alert = "No Steps Recorded"
    /\ ~isCounting /\ ~subscribed
    /\ startTime = NoTime
    /\ now > Epoch

\* the step is the continuation of the failed fetch at position i
FetchFails(i) ==
    /\ inflight[i].stage = "intercepted"
    /\ inflight[i].kind \in FetchKinds
    /\ inflight[i].status # OK
    /\ inflight' = RemoveAt(inflight, i)

\* C14 as stated: whenever a fetch of a screen has failed, an alert dialog
\* is on screen once its catch block has run.
C14_AlertOnEveryFailure ==
    [][\A i \in 1..Len(inflight) : FetchFails(i) => errorAlert' # "none"]_vars

\* C14, amended: a failed fetchDashboardData puts up the 'Error' alert and
\* keeps the data shown; a failed loadAppointments, fetchWeeklySteps,
\* fetchExerciseHistory or fetchDietHistory puts up no alert, and the mounted
\* screen shows the empty list or the default data for it.
C14_AlertOrFallback ==
    [][\A i \in 1..Len(inflight) : FetchFails(i) =>
            IF inflight[i].kind = "dashboard"
            THEN /\ errorAlert' = "Error"
                 /\ fetchScreen'.data = fetchScreen.data
            ELSE /\ errorAlert' = errorAlert
                 /\ inflight[i].alive =>
                        fetchScreen'.data[inflight[i].kind] = "default"]_vars

\* the appointments could not be loaded: the empty list is shown, no alert
C14_Witness ==
    /\ fetchScreen.screen = "Appointments"
    /\ fetchScreen.failed
    /\ ~fetchScreen.loading
    /\ fetchScreen.data["appointments"] = "default"
    /\ inflight = <<>>
    /\ errorAlert = "none"

\* the path the README's endpoint list gives for the call, NoItem for a call
\* that is not in the list
Documented(c) ==
    LET n == c.name
        Path(segs) == [j \in 1..2 * Len(segs) |->
                            IF j % 2 = 1 THEN "/" ELSE segs[j \div 2]]
    IN  CASE n = "signup" -> Path(<<"api", "auth", "signup">>)
          [] n = "verifyOTP" -> Path(<<"api", "auth", "verify-otp">>)
          [] n = "login" -> Path(<<"api", "auth", "login">>)
          [] n = "getCurrentUser" -> Path(<<"api", "auth", "user">>)
          [] n = "logout" -> Path(<<"api", "auth", "logout">>)
          [] n = "updateProfile" -> Path(<<"api", "auth", "update-profile">>)
          [] n = "changePassword" ->
                Path(<<"api", "auth", "change-password">>)
          [] n = "analyzeXRay" -> Path(<<"api", "ai", "analyze-xray">>)
          [] n = "getAnalyses" -> Path(<<"api", "ai", "analyses">>)
          [] n = "getAnalysisById" -> Path(<<"api", "ai", "analyses", c.id>>)
          [] n = "getConversations" ->
                Path(<<"api", "messages", "conversations">>)
          [] n = "getConversation" ->
                Path(<<"api", "messages", "conversation", c.id>>)
          [] n = "sendMessage" -> Path(<<"api", "messages", "send">>)
          [] n \in {"getPosts", "createPost"} ->
                Path(<<"api", "community", "posts">>)
          [] n \in {"getReplies", "createReply"} ->
                Path(<<"api", "community", "posts", c.id, "replies">>)
          [] n = "likePost" ->
                Path(<<"api", "community", "posts", c.id, "like">>)
          [] OTHER -> NoItem

\* C15: a service call that is in the README's endpoint list requests
\* API_BASE_URL followed by the documented path, /api once.
C15_DocumentedUrl ==
    requested # NoItem /\ requested.call # NoItem
        /\ Documented(requested.call) # NoItem
    => requested.url = <<requested.base>> \o Documented(requested.call)

\* the step is the continuation of the exercise save at position i
SaveSettles(i) ==
    /\ planScreen # NoItem /\ planScreen.screen = "Exercise"
    /\ inflight[i].stage = "intercepted"
    /\ inflight[i].kind = "planLog"
    /\ inflight' = RemoveAt(inflight, i)

C17_ConfirmBeforeReset ==
    [][/\ planScreen # NoItem /\ planScreen' # NoItem
       /\ ~planScreen.loading
       /\ planScreen.completed # {}
       /\ planScreen'.completed = {}
       /\ planScreen'.selectedPlan # planScreen.selectedPlan
       => planScreen.confirm # NoItem]_vars

\* C21: a step that stops the session or unmounts the screen leaves no
\* accelerometer listener subscribed, and none is subscribed while no session
\* is active; outside an active session sessionSteps changes only to 0, so
\* no sample counts until startCounting has run again.
C21_NoListenerAfterStop ==
    /\ [](~isCounting \/ ~mounted => ~subscribed)
    /\ [][/\ (isCounting /\ ~isCounting') \/ (mounted /\ ~mounted') =>
                ~subscribed'
          /\ ~isCounting /\ sessionSteps' # sessionSteps =>
                sessionSteps' = 0
          /\ subscribed' /\ ~subscribed =>
                isCounting' /\ ~isCounting /\ sessionSteps' = 0]_vars

\* a session in which steps were counted has been stopped
C21_Witness ==
    /\ mounted /\ ~isCounting /\ ~subscribed
    /\ sessionSteps > 0
    /\ alert = "Session Complete"
    /\ lastStepTime > startTime

\* what C22 says of one step of an OTP screen, s its state before the step
\* and t after it, kind its resend request: a resend is sent only while
\* canResend holds; canResend becomes true only as the countdown goes from
\* 1 to 0; the countdown changes only by one down or to 60; a successful
\* resend sets canResend false, the countdown to 60 and clears the fields,
\* a failed one leaves the three as they are.
ResendStep(s, t, kind) ==
    /\ Sent # NoItem /\ Sent[1].kind = kind => s.canResend
    /\ t.canResend /\ ~s.canResend => s.countdown = 1 /\ t.countdown = 0
    /\ t.countdown # s.countdown =>
            t.countdown \in {s.countdown - 1, ResendSeconds}
    /\ \A i \in 1..Len(inflight) :
            /\ inflight[i].kind = kind /\ inflight[i].stage = "intercepted"
            /\ inflight[i].alive
            /\ inflight' = RemoveAt(inflight, i)
            => IF inflight[i].status = OK
               THEN /\ ~t.canResend /\ t.countdown = ResendSeconds
                    /\ t.otp = EmptyOtp
               ELSE /\ t.canResend = s.canResend
                    /\ t.countdown = s.countdown
                    /\ t.otp = s.otp

\* the safety part of C22 on both screens, and the handlers send nothing
\* while canResend is false
ResendSafety ==
    /\ [](/\ handleResend(otpScreen).req # NoItem => otpScreen.canResend
          /\ handleResendOtp(forgotScreen).req # NoItem =>
                forgotScreen.canResend
          /\ otpScreen.countdown \in 0..ResendSeconds
          /\ forgotScreen.countdown \in 0..ResendSeconds)
    /\ [][/\ ResendStep(otpScreen, otpScreen', "resendOTP")
          /\ ResendStep(forgotScreen, forgotScreen', "resendResetOtp")]_vars

\* C22 as stated: the safety part, and on either screen the countdown
\* reaches 0 if the screen stays mounted.
C22_CountdownReachesZero ==
    /\ ResendSafety
    /\ authScreen = "OTP" ~>
            (otpScreen.countdown = 0 \/ authScreen # "OTP")
    /\ authScreen = "ForgotPassword" ~>
            (forgotScreen.countdown = 0 \/ authScreen # "ForgotPassword")

\* C22, amended: the safety part; on OTPScreen the countdown reaches 0 if
\* the screen stays mounted, on ForgotPasswordScreen if it stays mounted and
\* in its OTP step.
C22_CountdownWhileOtpStep ==
    /\ ResendSafety
    /\ authScreen = "OTP" ~>
            (otpScreen.countdown = 0 \/ authScreen # "OTP")
    /\ authScreen = "ForgotPassword" /\ forgotScreen.step = "otp" ~>
            \/ forgotScreen.countdown = 0
            \/ forgotScreen.step # "otp"
            \/ authScreen # "ForgotPassword"

\* a resend has succeeded on a screen whose fields were filled, and the new
\* countdown is running
C22_Witness ==
    /\ authScreen = "OTP"
    /\ errorAlert = "Success"
    /\ inflight = <<>>
    /\ otpScreen.otp = EmptyOtp
    /\ ~otpScreen.canResend /\ ~otpScreen.resendLoading
    /\ otpScreen.countdown = ResendSeconds - 1

\* C23: a press of a water button of the diet screen leaves waterIntake at
\* the old value plus delta clamped to 0..12, a whole number of glasses in
\* that range, and the save request sent by the press carries that value.
C23_WaterClamped ==
    [][\A delta \in WaterDeltas : AdjustWater(delta) =>
            LET sum == planScreen.water + delta
                clamped == IF sum < 0 THEN 0 ELSE IF sum > 12 THEN 12 ELSE sum
            IN  /\ planScreen'.water = clamped
                /\ planScreen'.water \in 0..12
                /\ Sent # NoItem
                /\ Sent[1].kind = "planLog"
                /\ Sent[1].body[1].water = clamped]_vars

\* the + button was pressed at 12 glasses: 12 is shown and 12 was sent
C23_Witness ==
    /\ planScreen # NoItem /\ planScreen.screen = "Diet"
    /\ planScreen.water = MaxWater
    /\ Len(inflight) = 2
    /\ \A i \in 1..2 : /\ inflight[i].kind = "planLog"
                        /\ inflight[i].body[1].water = MaxWater
====
